---- MODULE Spec2Model ----
(***************************************************************************)
(* The simulation core of the maze game: Maze (grid, pellets, BFS),        *)
(* Player (the agent), Ghost (the adversaries) and Game (the match         *)
(* controller and its per-frame loop).                                      *)
(*                                                                         *)
(* Numbers.  Time is in milliseconds.  A distance or a progress is in      *)
(* units of 1/Scale of a tile, so progressToNext ranges over 0..Scale.     *)
(* A speed is in units per second.  Scale is a multiple of 17*1000, which  *)
(* makes every product speed * delta exact for a delta that is a multiple  *)
(* of 5 ms and makes the one change of speed inside a step loop (respawn   *)
(* -> chase or scatter at the home cell, 6.8 -> 4.8 tiles/s) exact too.    *)
(***************************************************************************)
EXTENDS Integers, Sequences, FiniteSets, TLC

(***************************************************************************)
(* Utils                                                                   *)
(***************************************************************************)
DIRECTIONS == <<"up", "down", "left", "right">>

Direction == {"up", "down", "left", "right"}

\* null, for a Direction | null
NoDirection == "none"

\* null, for a GridPosition | null
NoCell == [row |-> -1, col |-> -1]

DIRECTION_DELTAS ==
  [d \in Direction |->
     CASE d = "up"    -> [row |-> -1, col |-> 0]
       [] d = "down"  -> [row |-> 1, col |-> 0]
       [] d = "left"  -> [row |-> 0, col |-> -1]
       [] d = "right" -> [row |-> 0, col |-> 1]]

addDirection(position, direction) ==
  [row |-> position.row + DIRECTION_DELTAS[direction].row,
   col |-> position.col + DIRECTION_DELTAS[direction].col]

oppositeDirection(direction) ==
  CASE direction = "up"    -> "down"
    [] direction = "down"  -> "up"
    [] direction = "left"  -> "right"
    [] direction = "right" -> "left"
    [] OTHER               -> direction

cellsEqual(a, b) == a.row = b.row /\ a.col = b.col

Abs(x) == IF x < 0 THEN -x ELSE x

Max(a, b) == IF a >= b THEN a ELSE b

Min(a, b) == IF a <= b THEN a ELSE b

manhattanDistance(a, b) == Abs(a.row - b.row) + Abs(a.col - b.col)

(***************************************************************************)
(* Maze: layouts                                                           *)
(***************************************************************************)
\* The layout of the program, one tuple of symbols per row.
MAZE_LAYOUT ==
  << <<"#","#","#","#","#","#","#","#","#","#","#","#","#","#","#","#","#","#","#","#","#">>,
     <<"#","o",".",".",".",".",".",".",".",".","#",".",".",".",".",".",".",".",".","o","#">>,
     <<"#",".","#","#","#",".","#","#","#",".","#",".","#","#","#",".","#","#","#",".","#">>,
     <<"#",".",".",".",".",".","#",".",".",".","#",".",".",".","#",".",".",".",".",".","#">>,
     <<"#","#","#",".","#",".","#",".","#","#","#","#","#",".","#",".","#",".","#","#","#">>,
     <<"#",".",".",".","#",".","#",".",".",".","#",".",".",".","#",".","#",".",".",".","#">>,
     <<"#",".","#","#","#",".","#","#","#",".","#",".","#","#","#",".","#","#","#",".","#">>,
     <<"#",".",".",".",".",".",".",".",".",".","P",".",".",".",".",".",".",".",".",".","#">>,
     <<"#",".","#","#","#",".","#",".","#","#","#","#","#",".","#",".","#","#","#",".","#">>,
     <<"#",".",".",".",".",".","#",".",".",".","#",".",".",".","#",".",".",".",".",".","#">>,
     <<"#","#","#","#","#",".","#","#",".","G","G","G",".","#","#",".","#","#","#","#","#">>,
     <<"#",".",".",".",".",".","#",".",".",".","G",".",".",".","#",".",".",".",".",".","#">>,
     <<"#",".","#","#","#",".","#",".","#","#","#","#","#",".","#",".","#","#","#",".","#">>,
     <<"#",".",".",".","#",".","#",".",".",".","#",".",".",".","#",".","#",".",".",".","#">>,
     <<"#","#","#",".","#",".","#","#","#",".","#",".","#","#","#",".","#",".","#","#","#">>,
     <<"#",".",".",".",".",".","#",".",".",".","#",".",".",".","#",".",".",".",".",".","#">>,
     <<"#",".","#","#","#",".","#","#","#",".","#",".","#","#","#",".","#","#","#",".","#">>,
     <<"#","o",".",".","#",".",".",".",".",".","#",".",".",".",".",".","#",".",".","o","#">>,
     <<"#",".","#","#",".","#",".","#","#","#","#","#","#","#",".","#",".","#","#",".","#">>,
     <<"#",".",".",".",".",".",".",".",".",".",".",".",".",".",".",".",".",".",".",".","#">>,
     <<"#","#","#","#","#","#","#","#","#","#","#","#","#","#","#","#","#","#","#","#","#">> >>

layoutSymbolToCell(symbol) ==
  CASE symbol = "#" -> 1
    [] symbol = "." -> 2
    [] symbol = "o" -> 3
    [] symbol = "G" -> 4
    [] symbol = "P" -> 5
    [] OTHER        -> 0

\* The cells of a rows x cols grid in the order of parseLayout's two loops.
ScanOrder(rows, cols) ==
  [k \in 1..(rows * cols) |-> [row |-> (k - 1) \div cols, col |-> (k - 1) % cols]]

\* Maze.parseLayout, for a layout it accepts: the grid, the player spawn (the
\* last P met) and the ghost spawns in scan order.
parseLayout(layout) ==
  LET rows  == Len(layout)
      cols  == Len(layout[1])
      grid  == [r \in 0..(rows - 1) |->
                  [c \in 0..(cols - 1) |-> layoutSymbolToCell(layout[r + 1][c + 1])]]
      order == ScanOrder(rows, cols)
      ps    == SelectSeq(order, LAMBDA cell : grid[cell.row][cell.col] = 5)
  IN  [rows        |-> rows,
       cols        |-> cols,
       baseGrid    |-> grid,
       playerSpawn |-> ps[Len(ps)],
       ghostSpawns |-> SelectSeq(order, LAMBDA cell : grid[cell.row][cell.col] = 4)]

\* parseLayout's throws: an empty layout, a row of another width, no P, no G.
layoutAccepted(layout) ==
  /\ Len(layout) > 0
  /\ \A r \in 1..Len(layout) : Len(layout[r]) = Len(layout[1])
  /\ \E r \in 1..Len(layout) : \E c \in 1..Len(layout[r]) : layout[r][c] = "P"
  /\ \E r \in 1..Len(layout) : \E c \in 1..Len(layout[r]) : layout[r][c] = "G"

(***************************************************************************)
(* Maze: queries.  m is a maze as parseLayout returns it.                  *)
(***************************************************************************)
isInside(m, cell) ==
  cell.row >= 0 /\ cell.row < m.rows /\ cell.col >= 0 /\ cell.col < m.cols

isWall(m, cell) ==
  IF ~isInside(m, cell) THEN TRUE ELSE m.baseGrid[cell.row][cell.col] = 1

isWalkable(m, cell) == isInside(m, cell) /\ ~isWall(m, cell)

canMove(m, cell, direction) == isWalkable(m, addDirection(cell, direction))

getAvailableDirections(m, cell) ==
  SelectSeq(DIRECTIONS, LAMBDA direction : canMove(m, cell, direction))

\* rebuildPellets that passes over the power pellets.
rebuildPellets_pelletsOnly(m, grid) ==
  LET cells == {cell \in [row : 0..(m.rows - 1), col : 0..(m.cols - 1)] :
                  grid[cell.row][cell.col] = 2}
  IN  [cell \in cells |-> "pellet"]

\* Maze.rebuildPellets: the pellet map built from a grid, cell -> kind.
rebuildPellets(m, grid) ==
  LET cells == {cell \in [row : 0..(m.rows - 1), col : 0..(m.cols - 1)] :
                  grid[cell.row][cell.col] \in {2, 3}}
  IN  [cell \in cells |-> IF grid[cell.row][cell.col] = 2 THEN "pellet" ELSE "power"]

\* consumePelletAt that returns the kind and leaves the pellet in place.
consumePelletAt_keepsItem(m, grid, pellets, cell) ==
  IF ~isInside(m, cell) THEN [kind |-> "none", grid |-> grid, pellets |-> pellets]
  ELSE IF cell \notin DOMAIN pellets
  THEN [kind |-> "none", grid |-> grid, pellets |-> pellets]
  ELSE [kind |-> pellets[cell], grid |-> grid, pellets |-> pellets]

\* consumePelletAt that leaves a power pellet where it is.
consumePelletAt_skipsPower(m, grid, pellets, cell) ==
  IF ~isInside(m, cell) THEN [kind |-> "none", grid |-> grid, pellets |-> pellets]
  ELSE IF cell \notin DOMAIN pellets \/ grid[cell.row][cell.col] = 3
  THEN [kind |-> "none", grid |-> grid, pellets |-> pellets]
  ELSE [kind    |-> pellets[cell],
        grid    |-> IF grid[cell.row][cell.col] \in {2, 3}
                    THEN [grid EXCEPT ![cell.row][cell.col] = 0]
                    ELSE grid,
        pellets |-> [c \in (DOMAIN pellets) \ {cell} |-> pellets[c]]]

\* Maze.consumePelletAt on (grid, pellets): the kind returned ("none" for null)
\* and the grid and pellet map left behind.
consumePelletAt(m, grid, pellets, cell) ==
  IF ~isInside(m, cell) THEN [kind |-> "none", grid |-> grid, pellets |-> pellets]
  ELSE IF cell \notin DOMAIN pellets
  THEN [kind |-> "none", grid |-> grid, pellets |-> pellets]
  ELSE [kind    |-> pellets[cell],
        grid    |-> IF grid[cell.row][cell.col] \in {2, 3}
                    THEN [grid EXCEPT ![cell.row][cell.col] = 0]
                    ELSE grid,
        pellets |-> [c \in (DOMAIN pellets) \ {cell} |-> pellets[c]]]

getRemainingPellets(pellets) == Cardinality(DOMAIN pellets)

(***************************************************************************)
(* Maze.findDirectionBFS                                                   *)
(***************************************************************************)
\* One pass of "for (const direction of DIRECTIONS)" from `cell`, from the
\* i-th direction on: the queue and the visited set it leaves.  `first` is
\* the first move recorded for the neighbours ("" : the neighbour's own
\* direction, as in the pass from the start cell); `forbidden` is skipped.
RECURSIVE bfsNeighbours(_, _, _, _, _, _, _)
bfsNeighbours(m, cell, first, forbidden, i, queue, visited) ==
  IF i > Len(DIRECTIONS) THEN [queue |-> queue, visited |-> visited]
  ELSE LET direction == DIRECTIONS[i]
           next      == addDirection(cell, direction)
       IN  IF (forbidden # NoDirection /\ direction = forbidden)
              \/ ~isWalkable(m, next) \/ next \in visited
           THEN bfsNeighbours(m, cell, first, forbidden, i + 1, queue, visited)
           ELSE bfsNeighbours(m, cell, first, forbidden, i + 1,
                  Append(queue, [cell  |-> next,
                                 first |-> IF first = "" THEN direction ELSE first]),
                  visited \cup {next})

\* "while (head < queue.length)".
RECURSIVE bfsLoop(_, _, _, _, _)
bfsLoop(m, target, queue, head, visited) ==
  IF head > Len(queue) THEN NoDirection
  ELSE LET current == queue[head]
       IN  IF cellsEqual(current.cell, target) THEN current.first
           ELSE LET r == bfsNeighbours(m, current.cell, current.first, NoDirection,
                                       1, queue, visited)
                IN  bfsLoop(m, target, r.queue, head + 1, r.visited)

\* findDirectionBFS that returns the first direction open at start.
findDirectionBFS_firstOpen(m, start, target, forbiddenFirstDirection) ==
  IF ~isWalkable(m, start) \/ ~isWalkable(m, target) THEN NoDirection
  ELSE IF cellsEqual(start, target) THEN NoDirection
  ELSE LET r == bfsNeighbours(m, start, "", forbiddenFirstDirection, 1, <<>>, {start})
       IN  IF Len(r.queue) = 0 THEN NoDirection ELSE r.queue[1].first

\* findDirectionBFS that does not mark the start cell as visited.
findDirectionBFS_startNotVisited(m, start, target, forbiddenFirstDirection) ==
  IF ~isWalkable(m, start) \/ ~isWalkable(m, target) THEN NoDirection
  ELSE IF cellsEqual(start, target) THEN NoDirection
  ELSE LET r == bfsNeighbours(m, start, "", forbiddenFirstDirection, 1, <<>>, {})
       IN  bfsLoop(m, target, r.queue, 1, r.visited)

findDirectionBFS(m, start, target, forbiddenFirstDirection) ==
  IF ~isWalkable(m, start) \/ ~isWalkable(m, target) THEN NoDirection
  ELSE IF cellsEqual(start, target) THEN NoDirection
  ELSE LET r == bfsNeighbours(m, start, "", forbiddenFirstDirection, 1, <<>>, {start})
       IN  bfsLoop(m, target, r.queue, 1, r.visited)

(***************************************************************************)
(* Numbers of the model                                                    *)
(***************************************************************************)
\* Progress units per tile.
Scale == 17 * 1000

\* The frame deltas the loop is driven with, in ms, after the clamp
\* Math.min(clock.getDelta(), 0.05) of Game.loop.
MAX_DELTA == 50

Deltas == {MAX_DELTA}

\* Speeds in units per second: 6, 4.8, 3 and 6.8 tiles per second.
movementSpeedTilesPerSecond == 6 * Scale

moveSpeed == (48 * Scale) \div 10

frightenedSpeed == 3 * Scale

respawnSpeed == (68 * Scale) \div 10

\* Remaining time as the step loops carry it: `remaining` is in ms when
\* `at` is 0, and otherwise the distance, in units, that the remaining time
\* buys at speed `at`.  asDistance gives it as a distance at `speed`.
asDistance(remaining, at, speed) ==
  IF at = 0 THEN (remaining * speed) \div 1000
  ELSE IF at = speed THEN remaining
  ELSE (remaining * speed) \div at

(***************************************************************************)
(* Player                                                                  *)
(***************************************************************************)
Player_new(m) ==
  [spawnCell         |-> m.playerSpawn,
   currentCell       |-> m.playerSpawn,
   fromCell          |-> m.playerSpawn,
   toCell            |-> NoCell,
   currentDirection  |-> NoDirection,
   bufferedDirection |-> NoDirection,
   progressToNext    |-> 0]

Player_reset(p) ==
  [p EXCEPT !.currentCell = p.spawnCell,
            !.fromCell = p.spawnCell,
            !.toCell = NoCell,
            !.currentDirection = NoDirection,
            !.bufferedDirection = NoDirection,
            !.progressToNext = 0]

queueDirection(p, direction) == [p EXCEPT !.bufferedDirection = direction]

\* resolveNextDirection that forgets a buffered direction it cannot take.
resolveNextDirection_dropsBlocked(m, p) ==
  LET p1 == IF p.bufferedDirection # NoDirection
               /\ canMove(m, p.currentCell, p.bufferedDirection)
            THEN [p EXCEPT !.currentDirection = p.bufferedDirection,
                           !.bufferedDirection = NoDirection]
            ELSE [p EXCEPT !.bufferedDirection = NoDirection]
  IN  IF p1.currentDirection # NoDirection
         /\ ~canMove(m, p1.currentCell, p1.currentDirection)
      THEN [p1 EXCEPT !.currentDirection = NoDirection]
      ELSE p1

\* Player.resolveNextDirection: the player it leaves; the direction it
\* returns is the currentDirection of the result.
resolveNextDirection(m, p) ==
  LET p1 == IF p.bufferedDirection # NoDirection
               /\ canMove(m, p.currentCell, p.bufferedDirection)
            THEN [p EXCEPT !.currentDirection = p.bufferedDirection,
                           !.bufferedDirection = NoDirection]
            ELSE p
  IN  IF p1.currentDirection # NoDirection
         /\ ~canMove(m, p1.currentCell, p1.currentDirection)
      THEN [p1 EXCEPT !.currentDirection = NoDirection]
      ELSE p1

\* beginStep and finishStep are the same code in Player and in Ghost.
beginStep(e, direction) ==
  [e EXCEPT !.fromCell = e.currentCell,
            !.toCell = addDirection(e.currentCell, direction),
            !.progressToNext = 0,
            !.currentDirection = direction]

finishStep(e) ==
  IF e.toCell = NoCell THEN e
  ELSE [e EXCEPT !.currentCell = e.toCell,
                 !.fromCell = e.toCell,
                 !.toCell = NoCell,
                 !.progressToNext = 0]

\* "while (remaining > 0)" of Player.update.
RECURSIVE Player_loop(_, _, _, _)
Player_loop(m, p, remaining, at) ==
  IF remaining <= 0 THEN p
  ELSE LET p1 == IF p.toCell = NoCell THEN resolveNextDirection(m, p) ELSE p
       IN  IF p.toCell = NoCell /\ p1.currentDirection = NoDirection THEN p1
           ELSE LET p2    == IF p.toCell = NoCell
                             THEN beginStep(p1, p1.currentDirection) ELSE p1
                    speed == movementSpeedTilesPerSecond
                    rem   == asDistance(remaining, at, speed)
                IN  IF rem >= Scale - p2.progressToNext
                    THEN Player_loop(m, finishStep(p2),
                                     rem - (Scale - p2.progressToNext), speed)
                    ELSE [p2 EXCEPT !.progressToNext = @ + rem]

Player_update(m, p, deltaSeconds) == Player_loop(m, p, deltaSeconds, 0)

(***************************************************************************)
(* Ghost                                                                   *)
(***************************************************************************)
\* The colors of Game's constructor: one ghost per color.
colors == <<"ff4f5d", "56b7f5", "ffb347", "f27cff">>

Ghosts == 1..Len(colors)

HOLD_DELAY == 700

cornerTargets(m) ==
  << [row |-> 1, col |-> 1],
     [row |-> 1, col |-> m.cols - 2],
     [row |-> m.rows - 2, col |-> 1],
     [row |-> m.rows - 2, col |-> m.cols - 2] >>

\* The ghost built for colors[index + 1] (index from 0, as in colors.map),
\* as the constructor leaves it.
Ghost_new(m, index) ==
  LET spawn == m.ghostSpawns[(index % Len(m.ghostSpawns)) + 1]
  IN  [spawnCell        |-> spawn,
       homeCell         |-> m.ghostSpawns[(Len(m.ghostSpawns) \div 2) + 1],
       scatterTarget    |-> cornerTargets(m)[(index % 4) + 1],
       currentCell      |-> spawn,
       fromCell         |-> spawn,
       toCell           |-> NoCell,
       currentDirection |-> NoDirection,
       progressToNext   |-> 0,
       desiredMode      |-> "scatter",
       state            |-> "scatter",
       frightenedTimer  |-> 0,
       respawnDelay     |-> 0]

\* Ghost.reset without the teleport to the spawn cell.
Ghost_reset_inPlace(g, mode) ==
  [g EXCEPT !.desiredMode = mode,
            !.state = mode,
            !.frightenedTimer = 0,
            !.respawnDelay = 0,
            !.fromCell = g.currentCell,
            !.toCell = NoCell,
            !.currentDirection = NoDirection,
            !.progressToNext = 0]

Ghost_reset(g, mode) ==
  [g EXCEPT !.desiredMode = mode,
            !.state = mode,
            !.frightenedTimer = 0,
            !.respawnDelay = 0,
            !.currentCell = g.spawnCell,
            !.fromCell = g.spawnCell,
            !.toCell = NoCell,
            !.currentDirection = NoDirection,
            !.progressToNext = 0]

\* setMode that changes the state whatever it is.
setMode_always(g, mode) ==
  [g EXCEPT !.desiredMode = mode, !.state = mode]

setMode(g, mode) ==
  IF g.state \in {"chase", "scatter"}
  THEN [g EXCEPT !.desiredMode = mode, !.state = mode]
  ELSE [g EXCEPT !.desiredMode = mode]

\* setFrightened without the guard for a ghost in respawn.
setFrightened_evenInRespawn(g, durationSeconds) ==
  [g EXCEPT !.state = "frightened",
            !.frightenedTimer = Max(g.frightenedTimer, durationSeconds)]

\* setFrightened that overwrites the timer with the duration.
setFrightened_overwrite(g, durationSeconds) ==
  IF g.state = "respawn" THEN g
  ELSE [g EXCEPT !.state = "frightened",
                 !.frightenedTimer = durationSeconds]

\* setFrightened that adds the duration to the time that is left.
setFrightened_adds(g, durationSeconds) ==
  IF g.state = "respawn" THEN g
  ELSE [g EXCEPT !.state = "frightened",
                 !.frightenedTimer = g.frightenedTimer + durationSeconds]

setFrightened(g, durationSeconds) ==
  IF g.state = "respawn" THEN g
  ELSE [g EXCEPT !.state = "frightened",
                 !.frightenedTimer = Max(g.frightenedTimer, durationSeconds)]

\* onEaten without the hold delay.
onEaten_noHold(g) ==
  [g EXCEPT !.state = "respawn",
            !.frightenedTimer = 0,
            !.respawnDelay = 0,
            !.currentDirection = NoDirection,
            !.toCell = NoCell,
            !.progressToNext = 0,
            !.fromCell = g.currentCell]

\* onEaten that cancels the step but keeps the progress made on it.
onEaten_keepsProgress(g) ==
  [g EXCEPT !.state = "respawn",
            !.frightenedTimer = 0,
            !.respawnDelay = HOLD_DELAY,
            !.currentDirection = NoDirection,
            !.toCell = NoCell,
            !.fromCell = g.currentCell]

onEaten(g) ==
  [g EXCEPT !.state = "respawn",
            !.frightenedTimer = 0,
            !.respawnDelay = HOLD_DELAY,
            !.currentDirection = NoDirection,
            !.toCell = NoCell,
            !.progressToNext = 0,
            !.fromCell = g.currentCell]

getSpeed(g) ==
  CASE g.state = "frightened" -> frightenedSpeed
    [] g.state = "respawn"    -> respawnSpeed
    [] OTHER                  -> moveSpeed

\* resolveTarget that sends a ghost in respawn to its scatter corner.
resolveTarget_respawnToCorner(g, playerCell) ==
  CASE g.state = "chase" -> playerCell
    [] OTHER             -> g.scatterTarget

resolveTarget(g, playerCell) ==
  CASE g.state = "respawn" -> g.homeCell
    [] g.state = "chase"   -> playerCell
    [] OTHER               -> g.scatterTarget

\* bestOption that takes the last of the nearest options.
RECURSIVE bestOption_lastNearest(_, _, _, _, _, _)
bestOption_lastNearest(g, target, usableOptions, i, bestDirection, bestDistance) ==
  IF i > Len(usableOptions) THEN bestDirection
  ELSE LET direction == usableOptions[i]
           distance  == manhattanDistance(addDirection(g.currentCell, direction), target)
       IN  IF bestDistance < 0 \/ distance <= bestDistance
           THEN bestOption_lastNearest(g, target, usableOptions, i + 1, direction, distance)
           ELSE bestOption_lastNearest(g, target, usableOptions, i + 1, bestDirection, bestDistance)

\* The fallback loop of chooseDirection over usableOptions, from the i-th on.
RECURSIVE bestOption(_, _, _, _, _, _)
bestOption(g, target, usableOptions, i, bestDirection, bestDistance) ==
  IF i > Len(usableOptions) THEN bestDirection
  ELSE LET direction == usableOptions[i]
           distance  == manhattanDistance(addDirection(g.currentCell, direction), target)
       IN  IF bestDistance < 0 \/ distance < bestDistance
           THEN bestOption(g, target, usableOptions, i + 1, direction, distance)
           ELSE bestOption(g, target, usableOptions, i + 1, bestDirection, bestDistance)

\* chooseDirection that forbids no direction.
chooseDirection_mayReverse(m, g, playerCell) ==
  LET options == getAvailableDirections(m, g.currentCell)
  IN  IF Len(options) = 0 THEN {NoDirection}
      ELSE IF g.state = "frightened" THEN {options[i] : i \in 1..Len(options)}
      ELSE LET reverse   == IF g.currentDirection # NoDirection
                            THEN oppositeDirection(g.currentDirection) ELSE NoDirection
               forbidden == NoDirection
               target    == resolveTarget(g, playerCell)
               bfsDirection == findDirectionBFS(m, g.currentCell, target, forbidden)
           IN  IF bfsDirection # NoDirection THEN {bfsDirection}
               ELSE LET fallbackOptions ==
                          IF forbidden # NoDirection
                          THEN SelectSeq(options, LAMBDA dir : dir # forbidden)
                          ELSE options
                        usableOptions ==
                          IF Len(fallbackOptions) > 0 THEN fallbackOptions ELSE options
                    IN  {bestOption(g, target, usableOptions, 1, usableOptions[1], -1)}

\* chooseDirection that lets a frightened ghost take any direction, open
\* or not.
chooseDirection_anyWhenFrightened(m, g, playerCell) ==
  LET options == getAvailableDirections(m, g.currentCell)
  IN  IF Len(options) = 0 THEN {NoDirection}
      ELSE IF g.state = "frightened" THEN Direction
      ELSE LET reverse   == IF g.currentDirection # NoDirection
                            THEN oppositeDirection(g.currentDirection) ELSE NoDirection
               forbidden == IF reverse # NoDirection /\ Len(options) > 1
                            THEN reverse ELSE NoDirection
               target    == resolveTarget(g, playerCell)
               bfsDirection == findDirectionBFS(m, g.currentCell, target, forbidden)
           IN  IF bfsDirection # NoDirection THEN {bfsDirection}
               ELSE LET fallbackOptions ==
                          IF forbidden # NoDirection
                          THEN SelectSeq(options, LAMBDA dir : dir # forbidden)
                          ELSE options
                        usableOptions ==
                          IF Len(fallbackOptions) > 0 THEN fallbackOptions ELSE options
                    IN  {bestOption(g, target, usableOptions, 1, usableOptions[1], -1)}

\* Ghost.chooseDirection: the set of directions it can return ({NoDirection}
\* for null).  randomItem(options) can return any of the options.
chooseDirection(m, g, playerCell) ==
  LET options == getAvailableDirections(m, g.currentCell)
  IN  IF Len(options) = 0 THEN {NoDirection}
      ELSE IF g.state = "frightened" THEN {options[i] : i \in 1..Len(options)}
      ELSE LET reverse   == IF g.currentDirection # NoDirection
                            THEN oppositeDirection(g.currentDirection) ELSE NoDirection
               forbidden == IF reverse # NoDirection /\ Len(options) > 1
                            THEN reverse ELSE NoDirection
               target    == resolveTarget(g, playerCell)
               bfsDirection == findDirectionBFS(m, g.currentCell, target, forbidden)
           IN  IF bfsDirection # NoDirection THEN {bfsDirection}
               ELSE LET fallbackOptions ==
                          IF forbidden # NoDirection
                          THEN SelectSeq(options, LAMBDA dir : dir # forbidden)
                          ELSE options
                        usableOptions ==
                          IF Len(fallbackOptions) > 0 THEN fallbackOptions ELSE options
                    IN  {bestOption(g, target, usableOptions, 1, usableOptions[1], -1)}

\* The loop of Ghost.update with respawn ended on whatever cell the ghost
\* stands.
RECURSIVE Ghost_loop_leaveAnywhere(_, _, _, _, _)
Ghost_loop_leaveAnywhere(m, g, playerCell, remaining, at) ==
  IF remaining <= 0 THEN {g}
  ELSE LET g1 == IF g.toCell = NoCell /\ g.state = "respawn"
                 THEN [g EXCEPT !.state = g.desiredMode] ELSE g
           directions == IF g.toCell = NoCell
                         THEN chooseDirection(m, g1, playerCell) ELSE {NoDirection}
       IN  UNION
             { IF g.toCell = NoCell /\ direction = NoDirection THEN {g1}
               ELSE LET g2    == IF g.toCell = NoCell THEN beginStep(g1, direction) ELSE g1
                        speed == getSpeed(g2)
                        rem   == asDistance(remaining, at, speed)
                    IN  IF rem >= Scale - g2.progressToNext
                        THEN Ghost_loop_leaveAnywhere(m, finishStep(g2), playerCell,
                                        rem - (Scale - g2.progressToNext), speed)
                        ELSE {[g2 EXCEPT !.progressToNext = @ + rem]}
               : direction \in directions }

\* "while (remaining > 0)" of Ghost.update: the set of ghosts it can leave.
RECURSIVE Ghost_loop(_, _, _, _, _)
Ghost_loop(m, g, playerCell, remaining, at) ==
  IF remaining <= 0 THEN {g}
  ELSE LET g1 == IF g.toCell = NoCell /\ g.state = "respawn"
                    /\ cellsEqual(g.currentCell, g.homeCell)
                 THEN [g EXCEPT !.state = g.desiredMode] ELSE g
           directions == IF g.toCell = NoCell
                         THEN chooseDirection(m, g1, playerCell) ELSE {NoDirection}
       IN  UNION
             { IF g.toCell = NoCell /\ direction = NoDirection THEN {g1}
               ELSE LET g2    == IF g.toCell = NoCell THEN beginStep(g1, direction) ELSE g1
                        speed == getSpeed(g2)
                        rem   == asDistance(remaining, at, speed)
                    IN  IF rem >= Scale - g2.progressToNext
                        THEN Ghost_loop(m, finishStep(g2), playerCell,
                                        rem - (Scale - g2.progressToNext), speed)
                        ELSE {[g2 EXCEPT !.progressToNext = @ + rem]}
               : direction \in directions }

\* Ghost.update: the set of ghosts it can leave.
\* Ghost.update that ends frightened only once the timer is below 0.
Ghost_update_belowZero(m, g, deltaSeconds, playerCell) ==
  LET g1 == IF g.state = "frightened"
            THEN LET t == g.frightenedTimer - deltaSeconds
                 IN  IF t < 0
                     THEN [g EXCEPT !.frightenedTimer = t, !.state = g.desiredMode]
                     ELSE [g EXCEPT !.frightenedTimer = t]
            ELSE g
  IN  IF g1.state = "respawn" /\ g1.respawnDelay > 0
      THEN {[g1 EXCEPT !.respawnDelay = Max(0, g1.respawnDelay - deltaSeconds)]}
      ELSE Ghost_loop(m, g1, playerCell, deltaSeconds, 0)

\* Ghost.update that ends frightened one frame early.
Ghost_update_oneFrameEarly(m, g, deltaSeconds, playerCell) ==
  LET g1 == IF g.state = "frightened"
            THEN LET t == g.frightenedTimer - deltaSeconds
                 IN  IF t <= deltaSeconds
                     THEN [g EXCEPT !.frightenedTimer = t, !.state = g.desiredMode]
                     ELSE [g EXCEPT !.frightenedTimer = t]
            ELSE g
  IN  IF g1.state = "respawn" /\ g1.respawnDelay > 0
      THEN {[g1 EXCEPT !.respawnDelay = Max(0, g1.respawnDelay - deltaSeconds)]}
      ELSE Ghost_loop(m, g1, playerCell, deltaSeconds, 0)

Ghost_update(m, g, deltaSeconds, playerCell) ==
  LET g1 == IF g.state = "frightened"
            THEN LET t == g.frightenedTimer - deltaSeconds
                 IN  IF t <= 0
                     THEN [g EXCEPT !.frightenedTimer = t, !.state = g.desiredMode]
                     ELSE [g EXCEPT !.frightenedTimer = t]
            ELSE g
  IN  IF g1.state = "respawn" /\ g1.respawnDelay > 0
      THEN {[g1 EXCEPT !.respawnDelay = Max(0, g1.respawnDelay - deltaSeconds)]}
      ELSE Ghost_loop(m, g1, playerCell, deltaSeconds, 0)

(***************************************************************************)
(* Game: constants                                                         *)
(***************************************************************************)
STARTING_LIVES == 3

START_COUNTDOWN_DURATION == 3000

FRIGHTENED_DURATION == 8000

\* 0.52 tiles, in units.
COLLISION_DISTANCE == (52 * Scale) \div 100

\* Number.POSITIVE_INFINITY, as a duration.
Infinity == -1

MODE_SCHEDULE ==
  << [mode |-> "scatter", duration |-> 7000],
     [mode |-> "chase",   duration |-> 20000],
     [mode |-> "scatter", duration |-> 7000],
     [mode |-> "chase",   duration |-> 20000],
     [mode |-> "scatter", duration |-> 5000],
     [mode |-> "chase",   duration |-> Infinity] >>

\* scheduleElapsed >= duration
elapsedReaches(elapsed, duration) == duration # Infinity /\ elapsed >= duration

(***************************************************************************)
(* Game: the world position of the meshes and the distance test            *)
(***************************************************************************)
\* The mesh position that syncMeshTransform / syncMeshPosition leave, in
\* units, without the offset (cols / 2 - 0.5, rows / 2 - 0.5) that
\* gridToWorld adds to every cell alike: x runs along col, z along row.
worldX(e) ==
  IF e.toCell # NoCell
  THEN e.fromCell.col * Scale + (e.toCell.col - e.fromCell.col) * e.progressToNext
  ELSE e.currentCell.col * Scale

worldZ(e) ==
  IF e.toCell # NoCell
  THEN e.fromCell.row * Scale + (e.toCell.row - e.fromCell.row) * e.progressToNext
  ELSE e.currentCell.row * Scale

\* The meshes' heights differ: the player's is radius 0.34 plus a bob of
\* 0..0.03 while it moves, a ghost's is 0.35 + sin(bobTimer) * 0.025 with
\* bobTimer started at Math.random() * 2 pi.  The gap |dy| is any value from
\* 0 to 0.045 (0.035 for a player at rest); distanceTo is monotone in it, so
\* its two ends give every outcome of the test.
yGaps(p) ==
  {0, IF p.toCell # NoCell THEN (45 * Scale) \div 1000 ELSE (35 * Scale) \div 1000}

\* The distance test with a third of COLLISION_DISTANCE.
withinCollisionDistance_narrow(p, g, dy) ==
  LET dx == Abs(worldX(p) - worldX(g))
      dz == Abs(worldZ(p) - worldZ(g))
      narrow == COLLISION_DISTANCE \div 3
  IN  /\ dx <= narrow
      /\ dz <= narrow
      /\ dx * dx + dz * dz + dy * dy <= narrow * narrow

\* distance <= COLLISION_DISTANCE, for a vertical gap dy.
withinCollisionDistance(p, g, dy) ==
  LET dx == Abs(worldX(p) - worldX(g))
      dz == Abs(worldZ(p) - worldZ(g))
  IN  /\ dx <= COLLISION_DISTANCE
      /\ dz <= COLLISION_DISTANCE
      /\ dx * dx + dz * dz + dy * dy <= COLLISION_DISTANCE * COLLISION_DISTANCE

\* The outcomes of the distance test of every ghost: one BOOLEAN per ghost.
contacts(p, ghosts) ==
  LET outcomes == [i \in DOMAIN ghosts |->
                     {withinCollisionDistance(p, ghosts[i], dy) : dy \in yGaps(p)}]
  IN  IF \A i \in DOMAIN ghosts : Cardinality(outcomes[i]) = 1
      THEN {[i \in DOMAIN ghosts |-> CHOOSE b \in outcomes[i] : TRUE]}
      ELSE {near \in [DOMAIN ghosts -> BOOLEAN] :
              \A i \in DOMAIN ghosts : near[i] \in outcomes[i]}

(***************************************************************************)
(* Game: the match controller.  w is the world: Game's fields, the maze's  *)
(* grid and pellets, the events sent to the audio collaborator in the      *)
(* current frame, and a probe of the frame's inputs and local values.      *)
(***************************************************************************)
\* The probe of a frame: its deltaSeconds, whether updateSimulation ran,
\* what consumePelletAt returned, the ghosts after the pickup step and after
\* their update (<<>> while not reached), the outcome of the distance test
\* of each ghost in resolveCollisions, and the values assigned to Game.state,
\* in the order of the assignments.
NoProbe ==
  [deltaSeconds |-> 0,
   phases       |-> <<>>,
   simulated    |-> FALSE,
   collected    |-> "none",
   afterPickup  |-> <<>>,
   advanced     |-> <<>>,
   contact      |-> <<>>]

\* resetModeSchedule that leaves the ghosts their modes.
resetModeSchedule_ghostsKeepMode(w) ==
  [w EXCEPT !.scheduleIndex = 0,
            !.scheduleElapsed = 0,
            !.ghostMode = MODE_SCHEDULE[1].mode]

resetModeSchedule(w) ==
  [w EXCEPT !.scheduleIndex = 0,
            !.scheduleElapsed = 0,
            !.ghostMode = MODE_SCHEDULE[1].mode,
            !.ghosts = [i \in DOMAIN w.ghosts |-> setMode(w.ghosts[i], MODE_SCHEDULE[1].mode)]]

resetRoundPositions(w) ==
  [w EXCEPT !.player = Player_reset(w.player),
            !.ghosts = [i \in DOMAIN w.ghosts |-> Ghost_reset(w.ghosts[i], w.ghostMode)]]

resetPellets(m, w) ==
  [w EXCEPT !.grid = m.baseGrid, !.pellets = rebuildPellets(m, m.baseGrid)]

\* resetMatch that leaves the pellets as the last match left them.
resetMatch_keepPellets(m, w) ==
  LET w1 == [w EXCEPT !.score = 0, !.lives = STARTING_LIVES]
      w2 == resetRoundPositions(resetModeSchedule(w1))
  IN  [w2 EXCEPT !.countdownRemaining = 0,
                 !.state = "ready", !.probe.phases = Append(@, "ready")]

resetMatch(m, w) ==
  LET w1 == [w EXCEPT !.score = 0, !.lives = STARTING_LIVES]
      w2 == resetRoundPositions(resetModeSchedule(resetPellets(m, w1)))
  IN  [w2 EXCEPT !.countdownRemaining = 0,
                 !.state = "ready", !.probe.phases = Append(@, "ready")]

startCountdown(w) ==
  [w EXCEPT !.state = "countdown", !.probe.phases = Append(@, "countdown"),
            !.countdownRemaining = START_COUNTDOWN_DURATION]

\* handleInput with the restart branch taken in every phase but ready and
\* countdown: a start request in the middle of a round restarts the match.
handleInput_restartWhilePlaying(m, w, start, direction) ==
  LET w1 == IF ~start THEN w
            ELSE IF w.state = "ready" THEN startCountdown(w)
            ELSE IF w.state # "countdown" THEN startCountdown(resetMatch(m, w))
            ELSE w
  IN  IF direction # NoDirection
      THEN [w1 EXCEPT !.player = queueDirection(w1.player, direction)]
      ELSE w1

\* start: consumeStartPress(); direction: consumeDirectionPress().
handleInput(m, w, start, direction) ==
  LET w1 == IF ~start THEN w
            ELSE IF w.state = "ready" THEN startCountdown(w)
            ELSE IF w.state \in {"gameover", "win"} THEN startCountdown(resetMatch(m, w))
            ELSE w
  IN  IF direction # NoDirection
      THEN [w1 EXCEPT !.player = queueDirection(w1.player, direction)]
      ELSE w1

\* updateCountdown that waits for the countdown to go below 0.
updateCountdown_belowZero(w, deltaSeconds) ==
  LET t == Max(0, w.countdownRemaining - deltaSeconds)
  IN  IF w.countdownRemaining - deltaSeconds < 0
      THEN [w EXCEPT !.state = "playing", !.probe.phases = Append(@, "playing"),
                     !.countdownRemaining = 0]
      ELSE [w EXCEPT !.countdownRemaining = t]

updateCountdown(w, deltaSeconds) ==
  LET t == Max(0, w.countdownRemaining - deltaSeconds)
  IN  IF t <= 0
      THEN [w EXCEPT !.state = "playing", !.probe.phases = Append(@, "playing"),
                     !.countdownRemaining = 0]
      ELSE [w EXCEPT !.countdownRemaining = t]

\* scheduleLoop that goes back and forth between the first two entries.
RECURSIVE scheduleLoop_firstTwoOnly(_)
scheduleLoop_firstTwoOnly(w) ==
  LET duration == MODE_SCHEDULE[w.scheduleIndex + 1].duration
  IN  IF ~elapsedReaches(w.scheduleElapsed, duration) THEN w
      ELSE LET w1 == [w EXCEPT !.scheduleElapsed = @ - duration]
               next == (w1.scheduleIndex + 1) % 2
               mode == MODE_SCHEDULE[next + 1].mode
           IN  scheduleLoop_firstTwoOnly(
                 [w1 EXCEPT !.scheduleIndex = next,
                            !.ghostMode = mode,
                            !.ghosts = [i \in DOMAIN w1.ghosts |->
                                          setMode(w1.ghosts[i], mode)]])

\* The while loop of updateModeSchedule.
RECURSIVE scheduleLoop(_)
scheduleLoop(w) ==
  LET duration == MODE_SCHEDULE[w.scheduleIndex + 1].duration
  IN  IF ~elapsedReaches(w.scheduleElapsed, duration) THEN w
      ELSE LET w1 == [w EXCEPT !.scheduleElapsed = @ - duration]
           IN  IF w1.scheduleIndex >= Len(MODE_SCHEDULE) - 1 THEN w1
               ELSE LET mode == MODE_SCHEDULE[w1.scheduleIndex + 2].mode
                    IN  scheduleLoop(
                          [w1 EXCEPT !.scheduleIndex = @ + 1,
                                     !.ghostMode = mode,
                                     !.ghosts = [i \in DOMAIN w1.ghosts |->
                                                   setMode(w1.ghosts[i], mode)]])

updateModeSchedule(w, deltaSeconds) ==
  scheduleLoop([w EXCEPT !.scheduleElapsed = @ + deltaSeconds])

\* handlePlayerHit with "lives < 0" for "lives <= 0".
handlePlayerHit_belowZero(w) ==
  LET w1 == [w EXCEPT !.lives = @ - 1, !.audio = Append(@, "death")]
  IN  IF w1.lives < 0
      THEN [w1 EXCEPT !.state = "gameover", !.probe.phases = Append(@, "gameover")]
      ELSE resetModeSchedule(resetRoundPositions(
             [w1 EXCEPT !.state = "ready", !.probe.phases = Append(@, "ready")]))

\* handlePlayerHit without the call of resetModeSchedule.
handlePlayerHit_keepSchedule(w) ==
  LET w1 == [w EXCEPT !.lives = @ - 1, !.audio = Append(@, "death")]
  IN  IF w1.lives <= 0
      THEN [w1 EXCEPT !.state = "gameover", !.probe.phases = Append(@, "gameover")]
      ELSE resetRoundPositions(
             [w1 EXCEPT !.state = "ready", !.probe.phases = Append(@, "ready")])

handlePlayerHit(w) ==
  LET w1 == [w EXCEPT !.lives = @ - 1, !.audio = Append(@, "death")]
  IN  IF w1.lives <= 0
      THEN [w1 EXCEPT !.state = "gameover", !.probe.phases = Append(@, "gameover")]
      ELSE resetModeSchedule(resetRoundPositions(
             [w1 EXCEPT !.state = "ready", !.probe.phases = Append(@, "ready")]))

\* collideFrom without the return after handlePlayerHit: the loop goes on
\* to the next ghost.
RECURSIVE collideFrom_noReturn(_, _, _)
collideFrom_noReturn(w, near, i) ==
  IF i > Len(w.ghosts) THEN w
  ELSE IF ~near[i] THEN collideFrom_noReturn(w, near, i + 1)
  ELSE IF w.ghosts[i].state = "frightened"
  THEN collideFrom_noReturn([w EXCEPT !.ghosts[i] = onEaten(@),
                                      !.score = @ + 200,
                                      !.audio = Append(@, "ghostEaten")], near, i + 1)
  ELSE IF w.ghosts[i].state # "respawn"
  THEN collideFrom_noReturn(handlePlayerHit(w), near, i + 1)
  ELSE collideFrom_noReturn(w, near, i + 1)

\* collideFrom with a bonus of 100 for a ghost eaten.
RECURSIVE collideFrom_smallBonus(_, _, _)
collideFrom_smallBonus(w, near, i) ==
  IF i > Len(w.ghosts) THEN w
  ELSE IF ~near[i] THEN collideFrom_smallBonus(w, near, i + 1)
  ELSE IF w.ghosts[i].state = "frightened"
  THEN collideFrom_smallBonus([w EXCEPT !.ghosts[i] = onEaten(@),
                                        !.score = @ + 100,
                                        !.audio = Append(@, "ghostEaten")], near, i + 1)
  ELSE IF w.ghosts[i].state # "respawn" THEN handlePlayerHit(w)
  ELSE collideFrom_smallBonus(w, near, i + 1)

\* collideFrom in which a ghost in respawn hits the player as well.
RECURSIVE collideFrom_respawnHits(_, _, _)
collideFrom_respawnHits(w, near, i) ==
  IF i > Len(w.ghosts) THEN w
  ELSE IF ~near[i] THEN collideFrom_respawnHits(w, near, i + 1)
  ELSE IF w.ghosts[i].state = "frightened"
  THEN collideFrom_respawnHits([w EXCEPT !.ghosts[i] = onEaten(@),
                                         !.score = @ + 200,
                                         !.audio = Append(@, "ghostEaten")], near, i + 1)
  ELSE handlePlayerHit(w)

\* collideFrom that stops at the first ghost eaten.
RECURSIVE collideFrom_oneCatch(_, _, _)
collideFrom_oneCatch(w, near, i) ==
  IF i > Len(w.ghosts) THEN w
  ELSE IF ~near[i] THEN collideFrom_oneCatch(w, near, i + 1)
  ELSE IF w.ghosts[i].state = "frightened"
  THEN [w EXCEPT !.ghosts[i] = onEaten(@),
                 !.score = @ + 200,
                 !.audio = Append(@, "ghostEaten")]
  ELSE IF w.ghosts[i].state # "respawn" THEN handlePlayerHit(w)
  ELSE collideFrom_oneCatch(w, near, i + 1)

\* The for loop of resolveCollisions from the i-th ghost on; near[i] is the
\* outcome of "distance <= COLLISION_DISTANCE" for it.
RECURSIVE collideFrom(_, _, _)
collideFrom(w, near, i) ==
  IF i > Len(w.ghosts) THEN w
  ELSE IF ~near[i] THEN collideFrom(w, near, i + 1)
  ELSE IF w.ghosts[i].state = "frightened"
  THEN collideFrom([w EXCEPT !.ghosts[i] = onEaten(@),
                             !.score = @ + 200,
                             !.audio = Append(@, "ghostEaten")], near, i + 1)
  ELSE IF w.ghosts[i].state # "respawn" THEN handlePlayerHit(w)
  ELSE collideFrom(w, near, i + 1)

\* resolveCollisions: the set of worlds it can leave.
resolveCollisions(w) ==
  {collideFrom([w EXCEPT !.probe.contact = near], near, 1) :
     near \in contacts(w.player, w.ghosts)}

\* "for (const ghost of this.ghosts) ghost.update(...)" from the i-th ghost
\* on: the set of ghost arrays it can leave.
RECURSIVE updateGhostsFrom(_, _, _, _, _)
updateGhostsFrom(m, ghosts, i, deltaSeconds, playerCell) ==
  IF i > Len(ghosts) THEN {ghosts}
  ELSE UNION {updateGhostsFrom(m, [ghosts EXCEPT ![i] = g], i + 1, deltaSeconds, playerCell) :
                g \in Ghost_update(m, ghosts[i], deltaSeconds, playerCell)}

\* simulateFromPickup without the return after the win: the ghosts are
\* updated and the collisions resolved on the frame of the last pickup too.
simulateFromPickup_noReturnOnWin(m, w, deltaSeconds, player, collected) ==
  LET w1 == [w EXCEPT !.player = player,
                      !.grid = collected.grid,
                      !.pellets = collected.pellets,
                      !.probe = [w.probe EXCEPT !.simulated = TRUE,
                                                !.collected = collected.kind]]
      w2 == CASE collected.kind = "pellet" ->
                   [w1 EXCEPT !.score = @ + 10, !.audio = Append(@, "pellet")]
              [] collected.kind = "power" ->
                   [w1 EXCEPT !.score = @ + 50,
                              !.audio = Append(@, "power"),
                              !.ghosts = [i \in DOMAIN w1.ghosts |->
                                            setFrightened(w1.ghosts[i], FRIGHTENED_DURATION)]]
              [] OTHER -> w1
      w3 == [w2 EXCEPT !.probe.afterPickup = w2.ghosts]
      w4 == IF getRemainingPellets(w3.pellets) = 0
            THEN [w3 EXCEPT !.state = "win", !.probe.phases = Append(@, "win"),
                            !.audio = Append(@, "win")]
            ELSE w3
  IN  UNION {resolveCollisions([w4 EXCEPT !.ghosts = ghosts, !.probe.advanced = ghosts]) :
               ghosts \in updateGhostsFrom(m, w4.ghosts, 1, deltaSeconds,
                                           w4.player.currentCell)}

\* updateSimulation from the pickup on, for the player as its update left it
\* and for what consumePelletAt returned: the set of worlds it can leave.
simulateFromPickup(m, w, deltaSeconds, player, collected) ==
  LET w1 == [w EXCEPT !.player = player,
                      !.grid = collected.grid,
                      !.pellets = collected.pellets,
                      !.probe = [w.probe EXCEPT !.simulated = TRUE,
                                                !.collected = collected.kind]]
      w2 == CASE collected.kind = "pellet" ->
                   [w1 EXCEPT !.score = @ + 10, !.audio = Append(@, "pellet")]
              [] collected.kind = "power" ->
                   [w1 EXCEPT !.score = @ + 50,
                              !.audio = Append(@, "power"),
                              !.ghosts = [i \in DOMAIN w1.ghosts |->
                                            setFrightened(w1.ghosts[i], FRIGHTENED_DURATION)]]
              [] OTHER -> w1
      w3 == [w2 EXCEPT !.probe.afterPickup = w2.ghosts]
  IN  IF getRemainingPellets(w3.pellets) = 0
      THEN {[w3 EXCEPT !.state = "win", !.probe.phases = Append(@, "win"),
                       !.audio = Append(@, "win")]}
      ELSE UNION {resolveCollisions([w3 EXCEPT !.ghosts = ghosts, !.probe.advanced = ghosts]) :
                    ghosts \in updateGhostsFrom(m, w3.ghosts, 1, deltaSeconds,
                                                w3.player.currentCell)}

\* simulateFromPlayer that consumes the pellet of the cell the player was
\* on before its update.
simulateFromPlayer_cellBefore(m, w, deltaSeconds, player) ==
  simulateFromPickup(m, w, deltaSeconds, player,
                     consumePelletAt(m, w.grid, w.pellets, w.player.currentCell))

\* updateSimulation from "maze.consumePelletAt(player.getCell())" on.
simulateFromPlayer(m, w, deltaSeconds, player) ==
  simulateFromPickup(m, w, deltaSeconds, player,
                     consumePelletAt(m, w.grid, w.pellets, player.currentCell))

\* updateSimulation that puts the pellets back when the frame took a life
\* and the round goes on.
updateSimulation_restoresOnHit(m, w, deltaSeconds) ==
  {IF hit.lives < w.lives /\ hit.state = "ready" THEN resetPellets(m, hit) ELSE hit :
     hit \in simulateFromPlayer(m, w, deltaSeconds, Player_update(m, w.player, deltaSeconds))}

\* updateSimulation: the set of worlds it can leave.
updateSimulation(m, w, deltaSeconds) ==
  simulateFromPlayer(m, w, deltaSeconds, Player_update(m, w.player, deltaSeconds))

\* loop with updateModeSchedule called after the win check instead of
\* before updateSimulation: a frame that ends in win leaves the schedule as
\* it was (where the frame does not end in win either place of the call
\* leaves the same world).
loop_scheduleAfterWinCheck(m, w, deltaSeconds, start, direction) ==
  LET w0 == [w EXCEPT !.audio = <<>>,
                      !.probe = [NoProbe EXCEPT !.deltaSeconds = deltaSeconds]]
      w1 == handleInput(m, w0, start, direction)
  IN  IF w1.state = "countdown" THEN {updateCountdown(w1, deltaSeconds)}
      ELSE IF w1.state = "playing"
      THEN IF \E w2 \in updateSimulation(m, w1, deltaSeconds) : w2.state = "win"
           THEN updateSimulation(m, w1, deltaSeconds)
           ELSE updateSimulation(m, updateModeSchedule(w1, deltaSeconds), deltaSeconds)
      ELSE {w1}

\* Game.loop that runs the simulation in countdown as well.
loop_simulateInCountdown(m, w, deltaSeconds, start, direction) ==
  LET w0 == [w EXCEPT !.audio = <<>>,
                      !.probe = [NoProbe EXCEPT !.deltaSeconds = deltaSeconds]]
      w1 == handleInput(m, w0, start, direction)
  IN  IF w1.state = "countdown"
      THEN updateSimulation(m, updateCountdown(w1, deltaSeconds), deltaSeconds)
      ELSE IF w1.state = "playing"
      THEN updateSimulation(m, updateModeSchedule(w1, deltaSeconds), deltaSeconds)
      ELSE {w1}

\* Game.loop for one frame: the set of worlds it can leave.
loop(m, w, deltaSeconds, start, direction) ==
  LET w0 == [w EXCEPT !.audio = <<>>,
                      !.probe = [NoProbe EXCEPT !.deltaSeconds = deltaSeconds]]
      w1 == handleInput(m, w0, start, direction)
  IN  IF w1.state = "countdown" THEN {updateCountdown(w1, deltaSeconds)}
      ELSE IF w1.state = "playing"
      THEN updateSimulation(m, updateModeSchedule(w1, deltaSeconds), deltaSeconds)
      ELSE {w1}

\* The world as Game's constructor leaves it, for the maze of a layout.
newGame(m) ==
  resetMatch(m,
    [state              |-> "ready",
     score              |-> 0,
     lives              |-> STARTING_LIVES,
     countdownRemaining |-> 0,
     scheduleIndex      |-> 0,
     scheduleElapsed    |-> 0,
     ghostMode          |-> MODE_SCHEDULE[1].mode,
     grid               |-> m.baseGrid,
     pellets            |-> rebuildPellets(m, m.baseGrid),
     player             |-> Player_new(m),
     ghosts             |-> [i \in Ghosts |-> Ghost_new(m, i - 1)],
     audio              |-> <<>>,
     probe              |-> NoProbe])

(***************************************************************************)
(* The layouts the state machine is explored on: small mazes in the        *)
(* alphabet of MAZE_LAYOUT (" " is an open cell without an item).          *)
(***************************************************************************)
PowerCorridor ==
  << <<"#","#","#","#","#","#">>,
     <<"#","o","P","o","G","#">>,
     <<"#","#","#","#","#","#">> >>

PelletCorridor ==
  << <<"#","#","#","#","#","#">>,
     <<"#","P","."," ","G","#">>,
     <<"#","#","#","#","#","#">> >>

\* The ghosts are walled in and the player has one pellet to go for.
WalledGhosts ==
  << <<"#","#","#","#","#","#">>,
     <<"#","P",".","#","G","#">>,
     <<"#","#","#","#","#","#">> >>

\* Two pellets between the player and the ghosts.
TwoPellets ==
  << <<"#","#","#","#","#","#">>,
     <<"#","P",".",".","G","#">>,
     <<"#","#","#","#","#","#">> >>

Layouts == {PowerCorridor, PelletCorridor, TwoPellets, WalledGhosts}

\* Playing frames explored per round (since the last start request) where
\* the ghosts can move, and the frames more where none can: the first entry
\* of MODE_SCHEDULE lasts 140 frames of MAX_DELTA.
MaxPlayTicks == 12

MaxQuietTicks == 130

ghostsWalledIn(m) ==
  \A k \in DOMAIN m.ghostSpawns : getAvailableDirections(m, m.ghostSpawns[k]) = <<>>

playTicksBound(m) ==
  IF ghostsWalledIn(m) THEN MaxPlayTicks + MaxQuietTicks ELSE MaxPlayTicks

(***************************************************************************)
(* The state machine                                                       *)
(***************************************************************************)
\* maze: the Maze as constructed; world: Game and what it owns; playTicks:
\* the playing frames of the current round; caught: the ghosts eaten since
\* the match started (the last resetMatch).
VARIABLES maze, world, playTicks, caught

vars == <<maze, world, playTicks, caught>>

\* The number of times `event` was sent to the audio collaborator in the
\* frame that led to the current state.
played(w, event) == Cardinality({k \in DOMAIN w.audio : w.audio[k] = event})

Init ==
  /\ maze \in {parseLayout(layout) : layout \in {l \in Layouts : layoutAccepted(l)}}
  /\ world = newGame(maze)
  /\ playTicks = 0
  /\ caught = 0

\* One animation frame: Game.loop.
Loop(deltaSeconds, start, direction) ==
  /\ world.state = "playing" => playTicks < playTicksBound(maze)
  /\ world' \in loop(maze, world, deltaSeconds, start, direction)
  /\ playTicks' = IF world.state = "playing" THEN playTicks + 1
                  ELSE IF world'.state = "countdown" /\ world.state # "countdown" THEN 0
                  ELSE playTicks
  /\ caught' = IF start /\ world.state \in {"gameover", "win"} THEN 0
               ELSE caught + played(world', "ghostEaten")
  /\ UNCHANGED maze

Next ==
  \E deltaSeconds \in Deltas, start \in BOOLEAN, direction \in Direction \cup {NoDirection} :
     Loop(deltaSeconds, start, direction)

Spec == Init /\ [][Next]_vars

(***************************************************************************)
(* The state machine on one corridor, explored deeper: the frames of the   *)
(* first life, with the keys left and right                                *)
(***************************************************************************)
\* A power pellet behind the player, the ghosts ahead, a pellet behind them.
DeepCorridor ==
  << <<"#","#","#","#","#","#">>,
     <<"#","o","P","G",".","#">>,
     <<"#","#","#","#","#","#">> >>

\* Playing frames explored per round on DeepCorridor.
MaxDeepTicks == 22

\* One animation frame, whatever the number of frames before it.
Frame(deltaSeconds, start, direction) ==
  /\ world' \in loop(maze, world, deltaSeconds, start, direction)
  /\ playTicks' = IF world.state = "playing" THEN playTicks + 1
                  ELSE IF world'.state = "countdown" /\ world.state # "countdown" THEN 0
                  ELSE playTicks
  /\ caught' = IF start /\ world.state \in {"gameover", "win"} THEN 0
               ELSE caught + played(world', "ghostEaten")
  /\ UNCHANGED maze

InitDeep ==
  /\ maze = parseLayout(DeepCorridor)
  /\ world = newGame(maze)
  /\ playTicks = 0
  /\ caught = 0

LoopDeep(deltaSeconds, start, direction) ==
  /\ world.state = "playing" => playTicks < MaxDeepTicks
  /\ world.lives = STARTING_LIVES
  /\ start => world.state # "playing"
  /\ Frame(deltaSeconds, start, direction)

NextDeep ==
  \E deltaSeconds \in Deltas, start \in BOOLEAN, direction \in {"left", "right", NoDirection} :
     LoopDeep(deltaSeconds, start, direction)

SpecDeep == InitDeep /\ [][NextDeep]_vars

(***************************************************************************)
(* The state machine over a minute of play: the ghosts walled in, a frame  *)
(* time that stays the same from frame to frame, the direction keys        *)
(* pressed now and then                                                    *)
(***************************************************************************)
\* A pellet and a power pellet on either side of the player; the ghosts
\* behind a wall.
LongCorridor ==
  << <<"#","#","#","#","#","#","#">>,
     <<"#",".","P","o","#","G","#">>,
     <<"#","#","#","#","#","#","#">> >>

\* The frame times: MAX_DELTA, and one that divides neither the countdown
\* nor the frightened time.
LongDeltas == {35, MAX_DELTA}

\* Milliseconds of play explored per round on LongCorridor.
MaxPlayMs == 60000

\* A direction key may be pressed in the first MaxPressTicks playing frames
\* of every PressPeriod frames of a round.
MaxPressTicks == 14

PressPeriod == 400

InitLong ==
  /\ maze = parseLayout(LongCorridor)
  /\ world = newGame(maze)
  /\ playTicks = 0
  /\ caught = 0

LoopLong(deltaSeconds, start, direction) ==
  /\ world.probe.deltaSeconds \in {0, deltaSeconds}
  /\ world.state = "playing" => playTicks * deltaSeconds < MaxPlayMs
  /\ direction # NoDirection
       => world.state = "playing" /\ playTicks % PressPeriod < MaxPressTicks
  /\ start => world.state # "playing"
  /\ Frame(deltaSeconds, start, direction)

NextLong ==
  \E deltaSeconds \in LongDeltas, start \in BOOLEAN, direction \in {"left", "right", NoDirection} :
     LoopLong(deltaSeconds, start, direction)

SpecLong == InitLong /\ [][NextLong]_vars

(***************************************************************************)
(* One ghost driven through its public methods in any order, as Game may   *)
(* call them: setMode, setFrightened, onEaten (on a frightened ghost),     *)
(* reset and update.  world.probe holds the last call, its argument and    *)
(* the ghost before it.                                                    *)
(***************************************************************************)
\* The ghost that is driven.
Driven == 1

\* The durations passed to setFrightened, in ms.
FrightDurations == {200, 400}

InitGhost ==
  /\ maze = parseLayout(PelletCorridor)
  /\ world = [newGame(maze) EXCEPT
                !.probe = [call |-> "none", arg |-> 0, before |-> newGame(maze).ghosts[Driven]]]
  /\ playTicks = 0
  /\ caught = 0

\* The world after a call that leaves the driven ghost as g.
called(call, arg, g) ==
  [world EXCEPT !.ghosts[Driven] = g,
                !.probe = [call |-> call, arg |-> arg, before |-> world.ghosts[Driven]]]

GhostSetMode(mode) ==
  /\ world' = called("setMode", mode, setMode(world.ghosts[Driven], mode))
  /\ UNCHANGED <<maze, playTicks, caught>>

GhostSetFrightened(durationSeconds) ==
  /\ world' = called("setFrightened", durationSeconds,
                     setFrightened(world.ghosts[Driven], durationSeconds))
  /\ UNCHANGED <<maze, playTicks, caught>>

GhostOnEaten ==
  /\ world.ghosts[Driven].state = "frightened"
  /\ world' = called("onEaten", 0, onEaten(world.ghosts[Driven]))
  /\ UNCHANGED <<maze, playTicks, caught>>

GhostReset(mode) ==
  /\ world' = called("reset", mode, Ghost_reset(world.ghosts[Driven], mode))
  /\ UNCHANGED <<maze, playTicks, caught>>

GhostUpdate(deltaSeconds) ==
  /\ \E g \in Ghost_update(maze, world.ghosts[Driven], deltaSeconds, world.player.currentCell) :
        world' = called("update", deltaSeconds, g)
  /\ UNCHANGED <<maze, playTicks, caught>>

NextGhost ==
  \/ \E mode \in {"chase", "scatter"} : GhostSetMode(mode)
  \/ \E durationSeconds \in FrightDurations : GhostSetFrightened(durationSeconds)
  \/ GhostOnEaten
  \/ \E mode \in {"chase", "scatter"} : GhostReset(mode)
  \/ \E deltaSeconds \in Deltas : GhostUpdate(deltaSeconds)

SpecGhost == InitGhost /\ [][NextGhost]_vars

(***************************************************************************)
(* Maze.findDirectionBFS called once, from any walkable cell to any        *)
(* walkable cell of a maze.  world holds the arguments of the call and     *)
(* what it returned ("pending" before the call).                           *)
(***************************************************************************)
\* The upper left quarter of MAZE_LAYOUT, closed by walls, with rings, dead
\* ends and the spawn symbols in its bottom row.
QuarterMaze ==
  << <<"#","#","#","#","#","#","#","#","#","#","#">>,
     <<"#","o",".",".",".",".",".",".",".",".","#">>,
     <<"#",".","#","#","#",".","#","#","#",".","#">>,
     <<"#",".",".",".",".",".","#",".",".",".","#">>,
     <<"#","#","#",".","#",".","#",".","#","#","#">>,
     <<"#",".",".",".","#",".","#",".",".",".","#">>,
     <<"#",".","#","#","#",".","#","#","#",".","#">>,
     <<"#","G",".",".",".",".",".",".",".","P","#">>,
     <<"#","#","#","#","#","#","#","#","#","#","#">> >>

walkableCells(m) ==
  {cell \in [row : 0..(m.rows - 1), col : 0..(m.cols - 1)] : isWalkable(m, cell)}

InitBfs ==
  /\ maze = parseLayout(QuarterMaze)
  /\ \E start \in walkableCells(maze), target \in walkableCells(maze) :
        world = [start |-> start, target |-> target, found |-> "pending"]
  /\ playTicks = 0
  /\ caught = 0

FindDirection ==
  /\ world.found = "pending"
  /\ world' = [world EXCEPT
                 !.found = findDirectionBFS(maze, world.start, world.target, NoDirection)]
  /\ UNCHANGED <<maze, playTicks, caught>>

NextBfs == FindDirection

SpecBfs == InitBfs /\ [][NextBfs]_vars

(***************************************************************************)
(* Maze.consumePelletAt and Maze.resetPellets called in any order, on any  *)
(* cell inside the grid or just outside it.  world holds the maze's grid   *)
(* and pellets, the last call, its argument, what it returned and the grid *)
(* and pellets before it.                                                  *)
(***************************************************************************)
\* The cells of the grid and those one step outside it.
cellsAbout(m) == [row : (-1)..m.rows, col : (-1)..m.cols]

InitMaze ==
  /\ maze = parseLayout(DeepCorridor)
  /\ world = [grid     |-> maze.baseGrid,
              pellets  |-> rebuildPellets(maze, maze.baseGrid),
              call     |-> "none",
              arg      |-> NoCell,
              returned |-> "none",
              before   |-> [grid    |-> maze.baseGrid,
                            pellets |-> rebuildPellets(maze, maze.baseGrid)]]
  /\ playTicks = 0
  /\ caught = 0

MazeConsumePelletAt(cell) ==
  /\ LET r == consumePelletAt(maze, world.grid, world.pellets, cell)
     IN  world' = [grid     |-> r.grid,
                   pellets  |-> r.pellets,
                   call     |-> "consumePelletAt",
                   arg      |-> cell,
                   returned |-> r.kind,
                   before   |-> [grid |-> world.grid, pellets |-> world.pellets]]
  /\ UNCHANGED <<maze, playTicks, caught>>

MazeResetPellets ==
  /\ LET r == resetPellets(maze, world)
     IN  world' = [grid     |-> r.grid,
                   pellets  |-> r.pellets,
                   call     |-> "resetPellets",
                   arg      |-> NoCell,
                   returned |-> "none",
                   before   |-> [grid |-> world.grid, pellets |-> world.pellets]]
  /\ UNCHANGED <<maze, playTicks, caught>>

NextMaze ==
  \/ \E cell \in cellsAbout(maze) : MazeConsumePelletAt(cell)
  \/ MazeResetPellets

SpecMaze == InitMaze /\ [][NextMaze]_vars

(***************************************************************************)
(* findDirectionBFS with a forbidden first direction, for any two cells of *)
(* a small maze and of the ring of cells outside it.  world is the call:   *)
(* start, target, forbidden and the direction found ("pending" before).    *)
(***************************************************************************)
\* Two rings side by side, with a dead end at the end of two corridors.
RingMaze ==
  << <<"#","#","#","#","#","#","#","#">>,
     <<"#","P",".",".",".","G",".","#">>,
     <<"#",".","#",".","#",".","#","#">>,
     <<"#",".",".",".",".","o",".","#">>,
     <<"#","#","#","#","#","#","#","#">> >>

InitForbidden ==
  /\ maze = parseLayout(RingMaze)
  /\ \E start \in cellsAbout(maze), target \in cellsAbout(maze),
        forbidden \in Direction \cup {NoDirection} :
        world = [start |-> start, target |-> target, forbidden |-> forbidden,
                 found |-> "pending"]
  /\ playTicks = 0
  /\ caught = 0

FindDirectionForbidden ==
  /\ world.found = "pending"
  /\ world' = [world EXCEPT
                 !.found = findDirectionBFS(maze, world.start, world.target, world.forbidden)]
  /\ UNCHANGED <<maze, playTicks, caught>>

NextForbidden == FindDirectionForbidden

SpecForbidden == InitForbidden /\ [][NextForbidden]_vars

(***************************************************************************)
(* One update of a ghost that stands on a cell of a maze of dead ends, in  *)
(* any state a ghost can stand there in.  world is the ghost, the player's *)
(* cell, the last call and the ghost before it.                            *)
(***************************************************************************)
\* A corridor with dead ends on both sides: every crossing cuts the maze.
ForkMaze ==
  << <<"#","#","#","#","#","#","#">>,
     <<"#",".","#",".","#",".","#">>,
     <<"#","G",".",".",".","P","#">>,
     <<"#",".","#","o","#",".","#">>,
     <<"#","#","#","#","#","#","#">> >>

\* The ghosts that stand on `cell` between two steps: the ghost of any
\* color, heading in a direction it can have come in by or in none, in
\* chase or scatter as scheduled, frightened, or in respawn with the hold
\* running or over.
standingGhosts(m, cell) ==
  {[Ghost_new(m, index) EXCEPT
      !.currentCell = cell,
      !.fromCell = cell,
      !.currentDirection = direction,
      !.desiredMode = mode,
      !.state = state,
      !.frightenedTimer = IF state = "frightened" THEN FRIGHTENED_DURATION ELSE 0,
      !.respawnDelay = hold] :
     index \in 0..(Len(colors) - 1),
     direction \in {NoDirection}
                   \cup {d \in Direction : canMove(m, cell, oppositeDirection(d))},
     mode \in {"chase", "scatter"},
     state \in {"chase", "scatter", "frightened", "respawn"},
     hold \in {0, HOLD_DELAY}}

InitFork ==
  /\ maze = parseLayout(ForkMaze)
  /\ \E cell \in walkableCells(maze), playerCell \in walkableCells(maze) :
        \E g \in standingGhosts(maze, cell) :
           /\ g.state \in {"chase", "scatter"} => g.state = g.desiredMode
           /\ g.respawnDelay > 0 => g.state = "respawn" /\ g.currentDirection = NoDirection
           /\ world = [ghost |-> g, playerCell |-> playerCell, call |-> "none", before |-> g]
  /\ playTicks = 0
  /\ caught = 0

ForkUpdate(deltaSeconds) ==
  /\ world.call = "none"
  /\ \E g \in Ghost_update(maze, world.ghost, deltaSeconds, world.playerCell) :
        world' = [world EXCEPT !.ghost = g, !.call = "update", !.before = world.ghost]
  /\ UNCHANGED <<maze, playTicks, caught>>

NextFork == \E deltaSeconds \in Deltas : ForkUpdate(deltaSeconds)

SpecFork == InitFork /\ [][NextFork]_vars

(***************************************************************************)
(* The state machine with the clock: every frame takes the time the clock  *)
(* gives and clamps it.  Player and ghosts each have a corridor of their   *)
(* own, so that the round goes on.  world is the Game with the field       *)
(* elapsed, the time the clock gave to the last frame.                     *)
(***************************************************************************)
\* Two corridors of three cells, a wall between them.
SplitCorridor ==
  << <<"#","#","#","#","#","#","#","#","#">>,
     <<"#",".",".","P","#","G",".",".","#">>,
     <<"#","#","#","#","#","#","#","#","#">> >>

\* clock.getDelta() in ms: a frame of a fast display, one of MAX_DELTA, and
\* a frame after a pause.  One value for all the frames of a run.
ClockDeltas == {35, MAX_DELTA, 400}

\* Milliseconds of play explored on SplitCorridor: past the first change of
\* MODE_SCHEDULE.
MaxClampMs == 7200

\* clampDelta that lets every frame time through.
clampDelta_none(elapsed) == elapsed

\* "Math.min(this.clock.getDelta(), 0.05)"
clampDelta(elapsed) == Min(elapsed, MAX_DELTA)

InitClamp ==
  /\ maze = parseLayout(SplitCorridor)
  /\ world = newGame(maze) @@ [elapsed |-> 0]
  /\ playTicks = 0
  /\ caught = 0

LoopClamp(elapsed, start, direction) ==
  /\ world.elapsed \in {0, elapsed}
  /\ world.state = "playing" => playTicks * clampDelta(elapsed) < MaxClampMs
  /\ direction # NoDirection => world.state = "playing" /\ playTicks < MaxPressTicks
  /\ start => world.state # "playing"
  /\ \E w \in loop(maze, world, clampDelta(elapsed), start, direction) :
        world' = [w EXCEPT !.elapsed = elapsed]
  /\ playTicks' = IF world.state = "playing" THEN playTicks + 1
                  ELSE IF world'.state = "countdown" /\ world.state # "countdown" THEN 0
                  ELSE playTicks
  /\ UNCHANGED <<maze, caught>>

NextClamp ==
  \E elapsed \in ClockDeltas, start \in BOOLEAN, direction \in {"left", "right", NoDirection} :
     LoopClamp(elapsed, start, direction)

SpecClamp == InitClamp /\ [][NextClamp]_vars

(***************************************************************************)
(* The state machine on a corridor so long that the ghosts reach a player  *)
(* who waits at its spawn cell only after the first change of              *)
(* MODE_SCHEDULE: three lives, gameover and the restart.  The direction    *)
(* keys are pressed in the first frames of the first life.                 *)
(***************************************************************************)
FarCorridor ==
  LET wall == [i \in 1..38 |-> "#"]
  IN  << wall,
         <<"#", "P">> \o [i \in 1..34 |-> "."] \o <<"G", "#">>,
         wall >>

\* Playing frames explored per round on FarCorridor.
MaxFarTicks == 150

InitFar ==
  /\ maze = parseLayout(FarCorridor)
  /\ world = newGame(maze)
  /\ playTicks = 0
  /\ caught = 0

LoopFar(deltaSeconds, start, direction) ==
  /\ world.state = "playing" => playTicks < MaxFarTicks
  /\ direction # NoDirection
       => world.state = "playing" /\ world.lives = STARTING_LIVES /\ playTicks < MaxPressTicks
  /\ start => world.state # "playing"
  /\ Frame(deltaSeconds, start, direction)

NextFar ==
  \E deltaSeconds \in Deltas, start \in BOOLEAN, direction \in {"left", "right", NoDirection} :
     LoopFar(deltaSeconds, start, direction)

SpecFar == InitFar /\ [][NextFar]_vars

(***************************************************************************)
(* A ghost eaten on any cell of the quarter maze and updated frame after   *)
(* frame while the round goes on, until it has left respawn; between the   *)
(* frames the mode schedule may change its mode and a power pellet may     *)
(* frighten the ghosts.  world is the ghost, the player's cell, the last   *)
(* call and the ghost before it; playTicks counts the frames.              *)
(***************************************************************************)
MaxRespawnTicks == 120

InitRespawn ==
  /\ maze = parseLayout(QuarterMaze)
  /\ \E cell \in walkableCells(maze), mode \in {"chase", "scatter"} :
        LET g == onEaten([Ghost_new(maze, 0) EXCEPT
                            !.currentCell = cell,
                            !.fromCell = cell,
                            !.desiredMode = mode,
                            !.state = "frightened",
                            !.frightenedTimer = FRIGHTENED_DURATION])
        IN  world = [ghost |-> g, playerCell |-> maze.playerSpawn,
                     call |-> "onEaten", before |-> g]
  /\ playTicks = 0
  /\ caught = 0

RespawnFrame ==
  /\ world.ghost.state = "respawn"
  /\ playTicks < MaxRespawnTicks
  /\ playTicks' = playTicks + 1

RespawnUpdate(deltaSeconds) ==
  /\ RespawnFrame
  /\ \E g \in Ghost_update(maze, world.ghost, deltaSeconds, world.playerCell) :
        world' = [world EXCEPT !.ghost = g, !.call = "update", !.before = world.ghost]
  /\ UNCHANGED <<maze, caught>>

RespawnSetMode(mode) ==
  /\ world.ghost.state = "respawn"
  /\ mode # world.ghost.desiredMode
  /\ world' = [world EXCEPT !.ghost = setMode(world.ghost, mode),
                             !.call = "setMode", !.before = world.ghost]
  /\ UNCHANGED <<maze, playTicks, caught>>

RespawnSetFrightened ==
  /\ world.ghost.state = "respawn"
  /\ world.call # "setFrightened"
  /\ world' = [world EXCEPT !.ghost = setFrightened(world.ghost, FRIGHTENED_DURATION),
                             !.call = "setFrightened", !.before = world.ghost]
  /\ UNCHANGED <<maze, playTicks, caught>>

NextRespawn ==
  \/ \E deltaSeconds \in Deltas : RespawnUpdate(deltaSeconds)
  \/ \E mode \in {"chase", "scatter"} : RespawnSetMode(mode)
  \/ RespawnSetFrightened

SpecRespawn == InitRespawn /\ [][NextRespawn]_vars

\* Frames keep coming: requestAnimationFrame(this.loop) at the end of loop.
\* The steps of RespawnUpdate are the steps that count a frame and both are
\* enabled in the same states, Ghost_update always having a result.
SpecRespawnLive == SpecRespawn /\ WF_playTicks(RespawnFrame)

(***************************************************************************)
(* Two power pellets within reach, the ghosts behind a wall, and a whole   *)
(* frightened period of frames after the keys of the first frames.         *)
(* world.sincePickup is the playing time from the frame of the latest      *)
(* power pellet on, that frame included, NoPickup before the first one.    *)
(***************************************************************************)
TwoPowerCorridor ==
  << <<"#","#","#","#","#","#","#","#","#">>,
     <<"#","o",".","P","o",".","#","G","#">>,
     <<"#","#","#","#","#","#","#","#","#">> >>

\* Milliseconds of play explored per round on TwoPowerCorridor.
MaxEvasionMs == 10000

NoPickup == -1

InitEvasion ==
  /\ maze = parseLayout(TwoPowerCorridor)
  /\ world = newGame(maze) @@ [sincePickup |-> NoPickup]
  /\ playTicks = 0
  /\ caught = 0

\* The playing time since the latest power pellet, after a frame that left
\* the game as w.
sincePickup(before, w, deltaSeconds) ==
  IF w.probe.collected = "power"
  THEN IF w.probe.advanced # <<>> THEN deltaSeconds ELSE 0
  ELSE IF w.probe.simulated /\ before # NoPickup
       THEN Min(before + deltaSeconds, FRIGHTENED_DURATION)
       ELSE before

LoopEvasion(deltaSeconds, start, direction) ==
  /\ world.probe.deltaSeconds \in {0, deltaSeconds}
  /\ world.state = "playing" => playTicks * deltaSeconds < MaxEvasionMs
  /\ direction # NoDirection => world.state = "playing" /\ playTicks < MaxPressTicks
  /\ start => world.state # "playing"
  /\ \E w \in loop(maze, world, deltaSeconds, start, direction) :
        world' = [w EXCEPT !.sincePickup = sincePickup(world.sincePickup, w, deltaSeconds)]
  /\ playTicks' = IF world.state = "playing" THEN playTicks + 1
                  ELSE IF world'.state = "countdown" /\ world.state # "countdown" THEN 0
                  ELSE playTicks
  /\ UNCHANGED <<maze, caught>>

NextEvasion ==
  \E deltaSeconds \in LongDeltas, start \in BOOLEAN, direction \in {"left", "right", NoDirection} :
     LoopEvasion(deltaSeconds, start, direction)

SpecEvasion == InitEvasion /\ [][NextEvasion]_vars

(***************************************************************************)
(* A match on MAZE_LAYOUT without ghosts, played by a user who presses     *)
(* Enter once and then the key that leads to the nearest item left.        *)
(* playTicks counts the frames.                                            *)
(***************************************************************************)
MaxTourTicks == 3000

\* The cells one move away from a cell of cells.
neighbours(m, cells) ==
  UNION {{addDirection(cell, direction) :
            direction \in {d \in Direction : canMove(m, cell, d)}} : cell \in cells}

\* The cells that can be walked to from the cells of frontier without
\* entering a cell of seen, and those of seen.
RECURSIVE spread(_, _, _)
spread(m, frontier, seen) ==
  IF frontier = {} THEN seen
  ELSE spread(m, neighbours(m, frontier) \ (seen \cup frontier), seen \cup frontier)

\* The cells of items nearest to the cells of frontier; {} if none can be
\* walked to.
RECURSIVE nearestItems(_, _, _, _)
nearestItems(m, frontier, seen, items) ==
  IF frontier = {} THEN {}
  ELSE IF frontier \cap items # {} THEN frontier \cap items
  ELSE nearestItems(m, neighbours(m, frontier) \ (seen \cup frontier),
                    seen \cup frontier, items)

\* The number of moves from the cells of frontier to target.
RECURSIVE movesTo(_, _, _, _)
movesTo(m, frontier, seen, target) ==
  IF target \in frontier THEN 0
  ELSE 1 + movesTo(m, neighbours(m, frontier) \ (seen \cup frontier),
                   seen \cup frontier, target)

\* The first cell of cells in reading order.
firstCell(cells) ==
  CHOOSE cell \in cells :
    \A other \in cells :
       cell.row < other.row \/ (cell.row = other.row /\ cell.col <= other.col)

\* The first direction of DIRECTIONS that brings cell nearer to target.
keyToward(m, cell, target) ==
  LET nearer == {i \in DOMAIN DIRECTIONS :
                   /\ canMove(m, cell, DIRECTIONS[i])
                   /\ movesTo(m, {addDirection(cell, DIRECTIONS[i])}, {}, target)
                        < movesTo(m, {cell}, {}, target)}
  IN  DIRECTIONS[CHOOSE i \in nearer : \A j \in nearer : i <= j]

\* The cell the player is on or on its way to.
boundFor(p) == IF p.toCell # NoCell THEN p.toCell ELSE p.currentCell

\* The key the user presses in a frame: the way from boundFor to the
\* nearest of the items left elsewhere, none when there is no such item.
pressedFor(m, state, cell, items) ==
  IF state # "playing" \/ nearestItems(m, {cell}, {}, items) = {} THEN NoDirection
  ELSE keyToward(m, cell, firstCell(nearestItems(m, {cell}, {}, items)))

InitTour ==
  /\ maze = parseLayout(MAZE_LAYOUT)
  /\ world = [newGame(maze) EXCEPT !.ghosts = <<>>]
  /\ playTicks = 0
  /\ caught = 0

TourFrame ==
  /\ world.state # "win"
  /\ playTicks < MaxTourTicks
  /\ playTicks' = playTicks + 1

TourLoop(deltaSeconds, start) ==
  /\ TourFrame
  /\ start <=> world.state = "ready"
  /\ world' \in loop(maze, world, deltaSeconds, start,
                     pressedFor(maze, world.state, boundFor(world.player),
                                DOMAIN world.pellets \ {boundFor(world.player)}))
  /\ UNCHANGED <<maze, caught>>

NextTour == \E deltaSeconds \in Deltas, start \in BOOLEAN : TourLoop(deltaSeconds, start)

SpecTour == InitTour /\ [][NextTour]_vars

\* Frames keep coming: requestAnimationFrame(this.loop) at the end of loop.
\* The steps of TourLoop are the steps that count a frame and both are
\* enabled in the same states, loop always having a result.
SpecTourLive == SpecTour /\ WF_playTicks(TourFrame)

(***************************************************************************)
(* The player alone: queueDirection, update and reset called in any order  *)
(* on the player of the quarter maze.  world is the player, the last call, *)
(* its argument and the player before it.                                  *)
(***************************************************************************)
InitPlayer ==
  /\ maze = parseLayout(QuarterMaze)
  /\ world = [player |-> Player_new(maze), call |-> "none", arg |-> NoDirection,
              before |-> Player_new(maze)]
  /\ playTicks = 0
  /\ caught = 0

PlayerQueueDirection(direction) ==
  /\ world' = [player |-> queueDirection(world.player, direction),
               call |-> "queueDirection", arg |-> direction, before |-> world.player]
  /\ UNCHANGED <<maze, playTicks, caught>>

PlayerUpdate(deltaSeconds) ==
  /\ world' = [player |-> Player_update(maze, world.player, deltaSeconds),
               call |-> "update", arg |-> NoDirection, before |-> world.player]
  /\ UNCHANGED <<maze, playTicks, caught>>

PlayerReset ==
  /\ world' = [player |-> Player_reset(world.player),
               call |-> "reset", arg |-> NoDirection, before |-> world.player]
  /\ UNCHANGED <<maze, playTicks, caught>>

NextPlayer ==
  \/ \E direction \in Direction : PlayerQueueDirection(direction)
  \/ \E deltaSeconds \in Deltas : PlayerUpdate(deltaSeconds)
  \/ PlayerReset

SpecPlayer == InitPlayer /\ [][NextPlayer]_vars

(***************************************************************************)
(* Input: the pending presses, the key callback that sets them and the     *)
(* consume methods that Game.handleInput reads them with.  A consume       *)
(* method gives the value it returns and the Input it leaves.              *)
(***************************************************************************)
keyToDirection(code) ==
  CASE code \in {"ArrowUp", "KeyW"}    -> "up"
    [] code \in {"ArrowDown", "KeyS"}  -> "down"
    [] code \in {"ArrowLeft", "KeyA"}  -> "left"
    [] code \in {"ArrowRight", "KeyD"} -> "right"
    [] OTHER                           -> NoDirection

Input_new ==
  [bufferedDirection     |-> NoDirection,
   startRequested        |-> FALSE,
   cameraToggleRequested |-> FALSE]

onKeyDown(input, code, repeat) ==
  IF keyToDirection(code) # NoDirection
  THEN [input EXCEPT !.bufferedDirection = keyToDirection(code)]
  ELSE IF code = "Enter" THEN [input EXCEPT !.startRequested = TRUE]
  ELSE IF code = "KeyC" /\ ~repeat THEN [input EXCEPT !.cameraToggleRequested = TRUE]
  ELSE input

consumeDirectionPress(input) ==
  [value |-> input.bufferedDirection,
   input |-> [input EXCEPT !.bufferedDirection = NoDirection]]

\* consumeStartPress that leaves the request pending.
consumeStartPress_keepsRequest(input) ==
  IF ~input.startRequested THEN [value |-> FALSE, input |-> input]
  ELSE [value |-> TRUE, input |-> input]

consumeStartPress(input) ==
  IF ~input.startRequested THEN [value |-> FALSE, input |-> input]
  ELSE [value |-> TRUE, input |-> [input EXCEPT !.startRequested = FALSE]]

consumeCameraTogglePress(input) ==
  IF ~input.cameraToggleRequested THEN [value |-> FALSE, input |-> input]
  ELSE [value |-> TRUE, input |-> [input EXCEPT !.cameraToggleRequested = FALSE]]

\* cameraOffsets.length
cameraModes == 2

(***************************************************************************)
(* The game with its Input: key callbacks and animation frames in any      *)
(* order.  world is the Game with the fields input and cameraModeIndex,    *)
(* and with trace: the key events that set each request (keys), the frames *)
(* in which a consume method returned one (reads), the start requests read *)
(* in countdown or playing (discards), the frames that started a countdown *)
(* (rounds), and whether the last step was a key event or a frame.         *)
(***************************************************************************)
\* The key codes pressed: two direction keys, start, camera, and one that
\* Input ignores.
Keys == {"ArrowLeft", "KeyD", "Enter", "KeyC", "Escape"}

\* Key events explored for each kind of request, and playing frames
\* explored per round.
MaxStartKeys == 3

MaxDirectionKeys == 2

MaxCameraKeys == 1

MaxInputTicks == 6

NoTrace ==
  [keys     |-> [start |-> 0, direction |-> 0, camera |-> 0],
   reads    |-> [start |-> 0, direction |-> 0, camera |-> 0],
   discards |-> 0,
   rounds   |-> 0,
   last     |-> "none"]

InitInput ==
  /\ maze = parseLayout(WalledGhosts)
  /\ world = newGame(maze) @@ [input |-> Input_new, cameraModeIndex |-> 0, trace |-> NoTrace]
  /\ playTicks = 0
  /\ caught = 0

\* A keydown event between two frames.
KeyDown(code, repeat) ==
  /\ code = "Enter" => world.trace.keys.start < MaxStartKeys
  /\ keyToDirection(code) # NoDirection => world.trace.keys.direction < MaxDirectionKeys
  /\ code = "KeyC" => world.trace.keys.camera < MaxCameraKeys
  /\ world' = [world EXCEPT
                 !.input = onKeyDown(@, code, repeat),
                 !.trace.keys.start = IF code = "Enter" THEN @ + 1 ELSE @,
                 !.trace.keys.direction = IF keyToDirection(code) # NoDirection THEN @ + 1 ELSE @,
                 !.trace.keys.camera = IF code = "KeyC" /\ ~repeat THEN @ + 1 ELSE @,
                 !.trace.last = "key"]
  /\ UNCHANGED <<maze, playTicks, caught>>

\* The world a frame leaves, with the frame counted in its trace: camera,
\* start and direction are what the three consume methods returned to
\* handleInput in the frame that began in phase `from`.
traced(w, from, camera, start, direction) ==
  [w EXCEPT !.trace.reads.camera = IF camera THEN @ + 1 ELSE @,
            !.trace.reads.start = IF start THEN @ + 1 ELSE @,
            !.trace.reads.direction = IF direction # NoDirection THEN @ + 1 ELSE @,
            !.trace.discards = IF start /\ from \in {"countdown", "playing"} THEN @ + 1 ELSE @,
            !.trace.rounds = IF \E k \in DOMAIN w.probe.phases : w.probe.phases[k] = "countdown"
                             THEN @ + 1 ELSE @,
            !.trace.last = "frame"]

\* One animation frame: Game.loop with handleInput reading Input.
InputLoop(deltaSeconds) ==
  /\ world.state = "playing" => playTicks < MaxInputTicks
  /\ \E w \in loop(maze,
                    [world EXCEPT
                       !.input = consumeDirectionPress(consumeStartPress(
                                   consumeCameraTogglePress(@).input).input).input,
                       !.cameraModeIndex = IF consumeCameraTogglePress(world.input).value
                                           THEN (@ + 1) % cameraModes ELSE @],
                    deltaSeconds,
                    consumeStartPress(world.input).value,
                    consumeDirectionPress(world.input).value) :
        world' = traced(w, world.state,
                        consumeCameraTogglePress(world.input).value,
                        consumeStartPress(world.input).value,
                        consumeDirectionPress(world.input).value)
  /\ playTicks' = IF world.state = "playing" THEN playTicks + 1
                  ELSE IF world'.state = "countdown" /\ world.state # "countdown" THEN 0
                  ELSE playTicks
  /\ UNCHANGED <<maze, caught>>

NextInput ==
  \/ \E code \in Keys, repeat \in BOOLEAN : KeyDown(code, repeat)
  \/ \E deltaSeconds \in Deltas : InputLoop(deltaSeconds)

SpecInput == InitInput /\ [][NextInput]_vars

(***************************************************************************)
(* Properties of the match phase, the lives and the round reset            *)
(***************************************************************************)
Inputs == Direction \cup {NoDirection}

\* The changes of Game.state that a frame starting in phase `from` made:
\* the pairs of consecutive different values.
phaseChanges(from, phases) ==
  LET seq == <<from>> \o phases
  IN  {<<seq[k], seq[k + 1]>> : k \in {j \in 1..(Len(seq) - 1) : seq[j] # seq[j + 1]}}

PhaseEdges ==
  {<<"ready", "countdown">>, <<"countdown", "playing">>, <<"playing", "gameover">>,
   <<"playing", "ready">>, <<"playing", "win">>, <<"gameover", "ready">>,
   <<"win", "ready">>}

\* The frame can be one in which no start request was consumed.
withoutStartRequest == \E d \in Deltas, direction \in Inputs : Loop(d, FALSE, direction)

\* The changes of phase from one frame to the next.
TickEdges ==
  {<<"ready", "countdown">>, <<"countdown", "playing">>, <<"playing", "gameover">>,
   <<"playing", "ready">>, <<"playing", "win">>, <<"gameover", "countdown">>,
   <<"win", "countdown">>}

\* C1, as stated: a frame changes the phase only along ready->countdown,
\* countdown->playing, playing->gameover, playing->ready, playing->win,
\* gameover->ready and win->ready.
C1_TickEdgesAsStated ==
  [][world'.state # world.state => <<world.state, world'.state>> \in PhaseEdges]_vars

\* C1, amended: a frame changes the phase only along ready->countdown,
\* countdown->playing, playing->gameover, playing->ready, playing->win,
\* gameover->countdown and win->countdown: the frame that consumes a start
\* request in gameover or win assigns ready (resetMatch) and then countdown
\* (startCountdown), and every single assignment follows an edge of the
\* claim; playing->ready is made only by a life lost, and ready, gameover
\* and win are left only in a frame that consumes a start request.
C1_PhaseEdges ==
  [][/\ world'.state # world.state => <<world.state, world'.state>> \in TickEdges
     /\ phaseChanges(world.state, world'.probe.phases) \subseteq PhaseEdges
     /\ world'.state = (<<world.state>> \o world'.probe.phases)[Len(world'.probe.phases) + 1]
     /\ (world.state \in {"gameover", "win"} /\ world'.state # world.state)
          => world'.probe.phases = <<"ready", "countdown">>
     /\ <<"playing", "ready">> \in phaseChanges(world.state, world'.probe.phases)
          => played(world', "death") = 1 /\ world'.lives = world.lives - 1
     /\ (world.state \in {"ready", "gameover", "win"} /\ world'.state # world.state)
          => ~withoutStartRequest]_vars

\* A restart has just happened: a frame assigned ready and then countdown.
C1_Restarted ==
  /\ world.probe.phases = <<"ready", "countdown">>
  /\ world.state = "countdown"

\* The ghosts that were within COLLISION_DISTANCE in chase or scatter when
\* resolveCollisions looked at them in the frame that led to w (the state a
\* ghost has then is the one its update left: onEaten changes only the ghost
\* eaten).
hitters(w) ==
  IF w.probe.contact = <<>> THEN {}
  ELSE {i \in Ghosts : w.probe.contact[i] /\ w.probe.advanced[i].state \in {"chase", "scatter"}}

\* C2: a playing frame that does not end in win and in which some ghost in
\* chase or scatter is within the collision distance when collisions are
\* resolved takes exactly one life; lives go down in no other frame, and
\* never by more than one.
C2_OneLifePerTick ==
  [][/\ world'.lives >= world.lives - 1
     /\ (world.state = "playing" /\ hitters(world') # {}) => world'.lives = world.lives - 1
     /\ world'.lives < world.lives => world.state = "playing" /\ hitters(world') # {}]_vars

\* A life was lost in a frame in which two or more ghosts qualified.
C2_SeveralHitters ==
  /\ played(world, "death") = 1
  /\ Cardinality(hitters(world)) >= 2

\* C3: after a hit the phase is gameover if no life is left and ready
\* otherwise; in every state the phase is gameover exactly when lives = 0,
\* and lives is within 0..STARTING_LIVES.
C3_GameoverIffNoLives ==
  /\ world.lives \in 0..STARTING_LIVES
  /\ world.state = "gameover" <=> world.lives = 0
  /\ played(world, "death") > 0
       => world.state = (IF world.lives = 0 THEN "gameover" ELSE "ready")

\* The last life was just lost.
C3_LastLifeLost ==
  /\ played(world, "death") = 1
  /\ world.lives = 0
  /\ world.state = "gameover"

\* The player and every ghost rest on their spawn cells.
atSpawn(w) ==
  /\ w.player.currentCell = w.player.spawnCell
  /\ w.player.toCell = NoCell
  /\ \A i \in Ghosts : /\ w.ghosts[i].currentCell = w.ghosts[i].spawnCell
                       /\ w.ghosts[i].toCell = NoCell

\* C4, as stated: after a frame with a hit, ready or gameover, the player's
\* cell and every ghost's cell are their spawn cells.
C4_SpawnAfterAnyHit ==
  played(world, "death") > 0
    => /\ world.player.currentCell = world.player.spawnCell
       /\ \A i \in Ghosts : world.ghosts[i].currentCell = world.ghosts[i].spawnCell

\* C4, amended: after a frame with a hit that leaves a life (phase ready)
\* the player and every ghost rest on their spawn cells; after the hit that
\* takes the last life (phase gameover) every ghost is where its update of
\* that frame left it, and the restart is what brings all back to spawn.
C4_SpawnAfterHitWithLivesLeft ==
  /\ (played(world, "death") > 0 /\ world.state = "ready") => atSpawn(world)
  /\ (played(world, "death") > 0 /\ world.state = "gameover")
       => \A i \in Ghosts :
            /\ world.ghosts[i].currentCell = world.probe.advanced[i].currentCell
            /\ world.ghosts[i].progressToNext \in {0, world.probe.advanced[i].progressToNext}
  /\ world.probe.phases = <<"ready", "countdown">> => atSpawn(world)

\* A hit left a life, in a frame in which a ghost had left its spawn cell.
C4_ResetFromElsewhere ==
  /\ played(world, "death") = 1
  /\ world.state = "ready"
  /\ \E i \in Ghosts : world.probe.advanced[i].currentCell # world.ghosts[i].spawnCell

\* The score of what the frame that led to w picked up and ate.
gained(w) ==
  (CASE w.probe.collected = "pellet" -> 10
     [] w.probe.collected = "power"  -> 50
     [] OTHER                        -> 0) + 200 * played(w, "ghostEaten")

itemSymbols(layout) ==
  Cardinality({rc \in (1..Len(layout)) \X (1..Len(layout[1])) :
                 layout[rc[1]][rc[2]] \in {".", "o"}})

\* The layout the maze was parsed from.
layoutOf(m) == CHOOSE layout \in Layouts : parseLayout(layout) = m

\* A match is fresh: the constructor or a restart has just run resetMatch.
fresh(w) ==
  \/ w.probe.phases = <<"ready", "countdown">>
  \/ w.probe.phases = <<"ready">> /\ played(w, "death") = 0

\* The items left are none exactly in phase win.
noneLeftIffWin(w) == getRemainingPellets(w.pellets) = 0 <=> w.state = "win"

\* The pellets of MAZE_LAYOUT as a fresh match counts them, and its symbols.
fixedLayoutCounted ==
  getRemainingPellets(rebuildPellets(parseLayout(MAZE_LAYOUT), parseLayout(MAZE_LAYOUT).baseGrid))
    = itemSymbols(MAZE_LAYOUT)

\* C6: a fresh match has as many items left as the layout has pellet and
\* power-pellet cells; a playing frame whose pickup takes the last item ends
\* in win, win is entered only by such a frame, and in every state no item
\* is left exactly when the phase is win.
C6_WinWhenNoneLeft ==
  [][/\ fixedLayoutCounted
     /\ noneLeftIffWin(world) /\ noneLeftIffWin(world')
     /\ fresh(world') => getRemainingPellets(world'.pellets) = itemSymbols(layoutOf(maze))
     /\ (world.state = "playing" /\ getRemainingPellets(world'.pellets) = 0)
          => world'.state = "win"
     /\ (world'.state = "win" /\ world.state # "win")
          => /\ world.state = "playing"
             /\ world'.probe.collected # "none"
             /\ getRemainingPellets(world.pellets) = 1
             /\ getRemainingPellets(world'.pellets) = 0]_vars

\* The frame that took the last item of a layout of two or more has just run.
C6_LastItemTaken ==
  /\ world.state = "win"
  /\ played(world, "win") = 1
  /\ world.probe.collected # "none"
  /\ itemSymbols(layoutOf(maze)) >= 2

\* C7: on the frame that consumes the last item no ghost is updated (its
\* cell, its target cell and its progress stay) and no collision is resolved
\* (lives stay), whatever ghost is in contact.
C7_WinSkipsGhosts ==
  [][(world.state = "playing" /\ world'.state = "win")
       => /\ world'.lives = world.lives
          /\ world'.probe.advanced = <<>>
          /\ world'.probe.contact = <<>>
          /\ played(world', "death") = 0
          /\ \A i \in Ghosts :
               /\ world'.ghosts[i].currentCell = world.ghosts[i].currentCell
               /\ world'.ghosts[i].toCell = world.ghosts[i].toCell
               /\ world'.ghosts[i].progressToNext = world.ghosts[i].progressToNext]_vars

\* The last item was taken with a ghost in chase or scatter within the
\* collision distance, whatever the heights of the meshes.
C7_WinInContact ==
  /\ world.state = "win"
  /\ played(world, "win") = 1
  /\ \E i \in Ghosts :
       /\ world.ghosts[i].state \in {"chase", "scatter"}
       /\ \A dy \in yGaps(world.player) :
            withinCollisionDistance(world.player, world.ghosts[i], dy)

\* C8, as stated: the schedule is advanced after the win check, so that a
\* frame that ends in win leaves scheduleElapsed and scheduleIndex as they
\* were.
C8_WinLeavesSchedule ==
  [][(world.state = "playing" /\ world'.state = "win")
       => /\ world'.scheduleElapsed = world.scheduleElapsed
          /\ world'.scheduleIndex = world.scheduleIndex]_vars

\* scheduleElapsed, scheduleIndex and ghostMode after one advance by
\* deltaSeconds (shorter than every entry) from those of w.
scheduleAdvanced(w, deltaSeconds) ==
  LET elapsed  == w.scheduleElapsed + deltaSeconds
      duration == MODE_SCHEDULE[w.scheduleIndex + 1].duration
  IN  IF duration # Infinity /\ elapsed >= duration /\ w.scheduleIndex + 1 < Len(MODE_SCHEDULE)
      THEN [elapsed |-> elapsed - duration, index |-> w.scheduleIndex + 1,
            mode |-> MODE_SCHEDULE[w.scheduleIndex + 2].mode]
      ELSE [elapsed |-> elapsed, index |-> w.scheduleIndex, mode |-> w.ghostMode]

\* C8, amended: a playing frame first advances the schedule (setMode on
\* every ghost when the entry changes), then the player, then the pickup at
\* the player's cell, then the win check, then the ghosts, then the
\* collisions; the schedule advances on the frame that ends in win too.
C8_ScheduleFirst ==
  [][world.state = "playing"
       => LET after  == scheduleAdvanced(world, world'.probe.deltaSeconds)
              lost   == played(world', "death") > 0 /\ world'.lives > 0
              picked == world'.probe.afterPickup
          IN  /\ world'.probe.simulated
              /\ ~lost => /\ world'.scheduleElapsed = after.elapsed
                          /\ world'.scheduleIndex = after.index
                          /\ world'.ghostMode = after.mode
                          /\ world'.player.currentCell \notin DOMAIN world'.pellets
              /\ \A i \in Ghosts :
                   /\ picked[i].desiredMode = after.mode
                   /\ (world.ghosts[i].state \in {"chase", "scatter"}
                         /\ world'.probe.collected # "power")
                        => picked[i].state = after.mode
                   /\ picked[i].currentCell = world.ghosts[i].currentCell
                   /\ picked[i].progressToNext = world.ghosts[i].progressToNext
              /\ IF world'.state = "win"
                 THEN world'.probe.advanced = <<>> /\ world'.probe.contact = <<>>
                 ELSE world'.probe.advanced # <<>> /\ world'.probe.contact # <<>>]_vars

\* The frame that ended in win moved the schedule to its second entry and
\* every ghost to chase.
C8_WinOnScheduleChange ==
  /\ world.state = "win"
  /\ played(world, "win") = 1
  /\ world.scheduleIndex = 1
  /\ world.scheduleElapsed = 0
  /\ \A i \in Ghosts : world.ghosts[i].state = "chase"

\* The items of a kind consumed since the match started.
consumed(m, w, kind) ==
  Cardinality({c \in DOMAIN rebuildPellets(m, m.baseGrid) : rebuildPellets(m, m.baseGrid)[c] = kind})
    - Cardinality({c \in DOMAIN w.pellets : w.pellets[c] = kind})

scoreAccounted(m, w, eaten) ==
  /\ w.score = 10 * consumed(m, w, "pellet") + 50 * consumed(m, w, "power") + 200 * eaten
  /\ w.score % 10 = 0

\* C9: a frame changes the score by +10 for the pellet it consumes, +50 for
\* the power pellet and +200 for each ghost eaten, and consumes one item at
\* most; within a match the score never goes down, is a multiple of 10 and
\* is 10 * pellets + 50 * power pellets + 200 * ghosts eaten since its start.
C9_ScoreAccounted ==
  [][/\ scoreAccounted(maze, world, caught) /\ scoreAccounted(maze, world', caught')
     /\ ~fresh(world')
          => /\ world'.score = world.score + gained(world')
             /\ world'.score >= world.score
             /\ getRemainingPellets(world.pellets) - getRemainingPellets(world'.pellets)
                  = (IF world'.probe.collected = "none" THEN 0 ELSE 1)]_vars

\* A power pellet was consumed and ghosts eaten, two of them in one frame.
C9_PowerAndGhosts ==
  /\ consumed(maze, world, "power") >= 1
  /\ caught >= 2
  /\ played(world, "ghostEaten") >= 2

\* C10: the frame in which the player picks up a power pellet adds 50 to the
\* score (and 200 for each ghost it then eats); by the pickup every ghost
\* not in respawn is frightened with frightenedTimer = FRIGHTENED_DURATION,
\* and every ghost in respawn stays in respawn with its timers as they were.
C10_PowerFrightensAllButRespawn ==
  [][world'.probe.collected = "power"
       => /\ world'.score = world.score + 50 + 200 * played(world', "ghostEaten")
          /\ \A i \in Ghosts :
               LET before == world.ghosts[i]
                   after  == world'.probe.afterPickup[i]
               IN  IF before.state = "respawn"
                   THEN /\ after.state = "respawn"
                        /\ after.respawnDelay = before.respawnDelay
                        /\ after.frightenedTimer = before.frightenedTimer
                   ELSE /\ after.state = "frightened"
                        /\ after.frightenedTimer = FRIGHTENED_DURATION]_vars

\* A power pellet was picked up with one ghost held in respawn and another,
\* frightened for a while already, frightened anew.
C10_PowerWithGhostInRespawn ==
  /\ world.probe.collected = "power"
  /\ \E i \in Ghosts : /\ world.probe.afterPickup[i].state = "respawn"
                       /\ world.probe.afterPickup[i].respawnDelay > 0
  /\ \E i \in Ghosts : world.probe.afterPickup[i].state = "frightened"
  /\ consumed(maze, world, "power") = 2

(***************************************************************************)
(* Ghosts eaten while collisions are resolved                             *)
(***************************************************************************)
\* The frightened ghosts within the collision distance when the collisions
\* of the frame are resolved.
frightenedNear(w) ==
  IF w.probe.contact = <<>> THEN {}
  ELSE {i \in Ghosts : w.probe.contact[i] /\ w.probe.advanced[i].state = "frightened"}

\* Those of them that the loop reaches: the ones before the first ghost in
\* chase or scatter within the collision distance.
examined(w) ==
  {i \in frightenedNear(w) : \A h \in hitters(w) : i < h}

\* C11 as stated: each frightened ghost within the collision distance is
\* eaten in that frame, whatever else the frame does.
C11_EveryFrightenedNearEaten ==
  played(world, "ghostEaten") = Cardinality(frightenedNear(world))

\* C11: the frightened ghosts within the collision distance that come, in
\* the order of the ghosts, before every ghost in chase or scatter within
\* that distance are all eaten in that frame: 200 is added to the score for
\* each, and each is in respawn with its timers and motion cleared unless
\* the frame then resets the round; the ghosts after the first hit are not
\* looked at, a frightened one among them is not eaten.
C11_FrightenedBeforeHitEaten ==
  [][/\ played(world', "ghostEaten") = Cardinality(examined(world'))
     /\ world'.probe.simulated
          => world'.score = world.score + gained(world')
     /\ played(world', "death") = 0 \/ world'.state = "gameover"
          => \A i \in examined(world') :
               /\ world'.ghosts[i] = onEaten(world'.probe.advanced[i])
               /\ world'.ghosts[i].state = "respawn"
     /\ \A i \in frightenedNear(world') \ examined(world') :
          world'.ghosts[i].respawnDelay = 0]_vars

\* A life was lost in a frame with a frightened ghost within the collision
\* distance on either side of the ghost that hit.
C11_EatenThenHitThenSkipped ==
  /\ played(world, "death") = 1
  /\ examined(world) # {}
  /\ frightenedNear(world) \ examined(world) # {}

\* The ghosts in respawn within the collision distance when the collisions
\* of the frame are resolved.
respawnNear(w) ==
  IF w.probe.contact = <<>> THEN {}
  ELSE {i \in Ghosts : w.probe.contact[i] /\ w.probe.advanced[i].state = "respawn"}

\* C12: a ghost in respawn within the collision distance is left by the
\* collisions as its update left it, still in respawn, unless another ghost
\* hits and the round is reset; when no ghost in another state is within
\* the distance the frame takes no life, adds nothing to the score beyond
\* the pickup, eats no ghost and stays in playing.
C12_RespawnInContactIgnored ==
  [][\A i \in respawnNear(world') :
       /\ played(world', "death") = 0
            => /\ world'.ghosts[i] = world'.probe.advanced[i]
               /\ world'.ghosts[i].state = "respawn"
       /\ hitters(world') = {} /\ frightenedNear(world') = {}
            => /\ world'.lives = world.lives
               /\ world'.score = world.score + gained(world')
               /\ played(world', "ghostEaten") = 0
               /\ world'.state = "playing"
               /\ world'.probe.phases = <<>>]_vars

\* Only ghosts in respawn were within the collision distance in a frame.
C12_OnlyRespawnInContact ==
  /\ respawnNear(world) # {}
  /\ hitters(world) = {}
  /\ frightenedNear(world) = {}
  /\ world.state = "playing"

(***************************************************************************)
(* Restart, and frames outside playing                                    *)
(***************************************************************************)
\* The match as resetMatch leaves it, whatever it was before.
matchReset(m, w) ==
  /\ w.grid = m.baseGrid
  /\ w.pellets = rebuildPellets(m, m.baseGrid)
  /\ getRemainingPellets(w.pellets) = itemSymbols(layoutOf(m))
  /\ w.score = 0
  /\ w.lives = STARTING_LIVES /\ w.lives = 3
  /\ w.scheduleIndex = 0 /\ w.scheduleElapsed = 0
  /\ w.ghostMode = MODE_SCHEDULE[1].mode
  /\ atSpawn(w)
  /\ w.player.fromCell = w.player.spawnCell
  /\ w.player.currentDirection = NoDirection
  /\ w.player.progressToNext = 0
  /\ \A i \in Ghosts :
       /\ w.ghosts[i].fromCell = w.ghosts[i].spawnCell
       /\ w.ghosts[i].currentDirection = NoDirection
       /\ w.ghosts[i].progressToNext = 0
       /\ w.ghosts[i].frightenedTimer = 0
       /\ w.ghosts[i].respawnDelay = 0
       /\ w.ghosts[i].state = MODE_SCHEDULE[1].mode
       /\ w.ghosts[i].desiredMode = MODE_SCHEDULE[1].mode

\* C13: the frame that leaves gameover or win (a start request, and every
\* start request in these phases does) leaves the pellets as the layout
\* has them, score 0, lives 3, the schedule at its first entry with elapsed
\* 0, the player and every ghost on their spawn cells with no step under
\* way, timers 0 and the ghosts in the first scheduled mode.
C13_RestartResetsMatch ==
  [][world.state \in {"gameover", "win"}
       => /\ (\E d \in Deltas, direction \in Inputs : Loop(d, TRUE, direction))
               => world'.state = "countdown"
          /\ world'.state # world.state
               => /\ matchReset(maze, world')
                  /\ world'.probe.phases = <<"ready", "countdown">>]_vars

\* A frame ran resetMatch and startCountdown, which only a start request
\* in gameover or win does; the countdown has begun.
C13_RestartedAfterPlay ==
  /\ world.probe.phases = <<"ready", "countdown">>
  /\ world.countdownRemaining = START_COUNTDOWN_DURATION - MAX_DELTA
  /\ matchReset(maze, world)
  /\ caught = 0

\* C14: a frame that begins in ready, countdown, gameover or win and
\* consumes no start request leaves score, lives, grid and pellets, the
\* schedule index and elapsed time, every ghost (cells, step, state, desired
\* mode, timers) and the player's cells and step as they were, plays no
\* sound and runs no simulation step; a buffered direction aside, no frame
\* outside playing runs one.
C14_NoSimulationOutsidePlaying ==
  [][world.state # "playing"
       => /\ ~world'.probe.simulated
          /\ world'.probe.collected = "none"
          /\ world'.probe.contact = <<>>
          /\ withoutStartRequest
               => /\ world'.score = world.score
                  /\ world'.lives = world.lives
                  /\ world'.grid = world.grid
                  /\ world'.pellets = world.pellets
                  /\ world'.scheduleIndex = world.scheduleIndex
                  /\ world'.scheduleElapsed = world.scheduleElapsed
                  /\ world'.ghostMode = world.ghostMode
                  /\ world'.ghosts = world.ghosts
                  /\ world'.player = [world.player EXCEPT
                                        !.bufferedDirection = world'.player.bufferedDirection]
                  /\ world'.audio = <<>>]_vars

\* A frame went by in gameover without a start request, a ghost stopped in
\* the middle of a step.
C14_QuietFrameMidStep ==
  /\ world.state = "gameover"
  /\ world.probe.phases = <<>>
  /\ world.probe.deltaSeconds > 0
  /\ \E i \in Ghosts : world.ghosts[i].toCell # NoCell /\ world.ghosts[i].progressToNext > 0

(***************************************************************************)
(* Countdown and mode schedule                                            *)
(***************************************************************************)
\* The phases a frame entered, as a set.
entered(w) == {w.probe.phases[k] : k \in DOMAIN w.probe.phases}

\* C15: the frame of a start request in ready, gameover or win sets
\* countdownRemaining to 3000 ms and, being in countdown by then, lowers it
\* by its own frame time; every frame that begins in countdown lowers it by
\* its frame time, to 0 at least, whatever its input; the state becomes
\* playing in the frame that brings it to 0, from countdown only and once
\* per countdown, and that frame runs no simulation step.
C15_CountdownToPlayingOnce ==
  [][LET d == world'.probe.deltaSeconds
     IN  /\ START_COUNTDOWN_DURATION = 3000
         /\ world'.countdownRemaining >= 0
         /\ "countdown" \in entered(world')
              => /\ world.state \in {"ready", "gameover", "win"}
                 /\ world'.countdownRemaining = START_COUNTDOWN_DURATION - d
                 /\ world'.state = "countdown"
         /\ world.state = "countdown"
              => /\ world'.countdownRemaining = Max(0, world.countdownRemaining - d)
                 /\ world'.state = IF world.countdownRemaining - d <= 0
                                   THEN "playing" ELSE "countdown"
                 /\ world'.probe.phases = IF world'.state = "playing"
                                          THEN <<"playing">> ELSE <<>>
                 /\ ~world'.probe.simulated
         /\ "playing" \in entered(world')
              => /\ world.state = "countdown"
                 /\ world.countdownRemaining <= d
                 /\ world'.countdownRemaining = 0
         /\ world.state # "countdown" /\ world'.state = "playing"
              => world.state = "playing"]_vars

\* Playing was entered by a frame of 35 ms that found less than its frame
\* time left on the countdown.
C15_CountdownCrossedZero ==
  /\ world.probe.phases = <<"playing">>
  /\ world.state = "playing"
  /\ world.probe.deltaSeconds = 35
  /\ world.countdownRemaining = 0
  /\ ~world.probe.simulated

\* The index of the last entry of MODE_SCHEDULE, the one without an end.
LastEntry == Len(MODE_SCHEDULE) - 1

\* C16: scheduleIndex is an index of MODE_SCHEDULE and ghostMode the mode of
\* its entry; from one frame to the next the index stays or goes up by one,
\* and goes up only in a frame that begins in playing, unless the frame
\* resets the match or the round (it enters ready), which leaves it 0; once
\* at the last entry it stays there until such a reset.
C16_ScheduleIndexMonotonic ==
  [][/\ world'.scheduleIndex \in 0..LastEntry
     /\ world'.ghostMode = MODE_SCHEDULE[world'.scheduleIndex + 1].mode
     /\ MODE_SCHEDULE[LastEntry + 1].duration = Infinity
     /\ IF "ready" \in entered(world')
        THEN world'.scheduleIndex = 0 /\ world'.scheduleElapsed = 0
        ELSE /\ world'.scheduleIndex \in {world.scheduleIndex, world.scheduleIndex + 1}
             /\ world'.scheduleIndex # world.scheduleIndex => world.state = "playing"
             /\ world.scheduleIndex = LastEntry => world'.scheduleIndex = LastEntry]_vars

\* The schedule has been at its last entry for a while.
C16_AtLastEntry ==
  /\ world.scheduleIndex = LastEntry
  /\ world.scheduleElapsed >= 500
  /\ world.state = "playing"

(***************************************************************************)
(* The frightened timer                                                   *)
(***************************************************************************)
\* C19: between frames every frightened ghost has frightenedTimer > 0.
C19_FrightenedHasTimeLeft ==
  \A i \in Ghosts :
     world.ghosts[i].state = "frightened" => world.ghosts[i].frightenedTimer > 0

\* A frightened ghost with less than a frame of 35 ms left on its timer.
C19_FrightenedAboutToEnd ==
  /\ world.probe.deltaSeconds = 35
  /\ \E i \in Ghosts : /\ world.ghosts[i].state = "frightened"
                       /\ world.ghosts[i].frightenedTimer < 35

\* C20: in every state every ghost has frightenedTimer >= 0.
C20_TimerNeverNegative ==
  \A i \in Ghosts : world.ghosts[i].frightenedTimer >= 0

(***************************************************************************)
(* The methods of a ghost                                                 *)
(***************************************************************************)
\* C17: setMode(mode) leaves desiredMode = mode and changes nothing else but
\* the state of a ghost in chase or scatter, which becomes mode; a ghost in
\* frightened or respawn keeps its state and timers.  No other call but
\* reset changes desiredMode, and the update that ends frightened (its
\* timer at 0 or less) or respawn leaves the ghost in its desiredMode.
C17_SetModeDefersToFrightenedAndRespawn ==
  LET call   == world.probe.call
      arg    == world.probe.arg
      before == world.probe.before
      g      == world.ghosts[Driven]
  IN  /\ g.desiredMode \in {"chase", "scatter"}
      /\ call = "setMode"
           => g = [before EXCEPT !.desiredMode = arg,
                                 !.state = IF before.state \in {"chase", "scatter"}
                                           THEN arg ELSE before.state]
      /\ call \in {"setFrightened", "onEaten", "update"}
           => g.desiredMode = before.desiredMode
      /\ before.state \in {"frightened", "respawn"} /\ g.state \in {"chase", "scatter"}
           => /\ call \in {"update", "reset"}
              /\ g.state = g.desiredMode
      /\ call = "update" /\ before.state = "frightened"
           => g.state = IF before.frightenedTimer - arg <= 0
                        THEN before.desiredMode ELSE "frightened"

\* setMode was called with the other mode on a ghost held in respawn.
C17_SetModeInRespawn ==
  /\ world.probe.call = "setMode"
  /\ world.probe.before.state = "respawn"
  /\ world.probe.before.respawnDelay > 0
  /\ world.probe.before.desiredMode # world.probe.arg
  /\ world.ghosts[Driven].state = "respawn"

\* C18: setFrightened(duration) on a ghost not in respawn leaves it
\* frightened with frightenedTimer the larger of its timer and duration,
\* so never less than before, and changes nothing else; on a ghost in
\* respawn it changes nothing.
C18_SetFrightenedTakesMax ==
  LET arg    == world.probe.arg
      before == world.probe.before
      g      == world.ghosts[Driven]
  IN  world.probe.call = "setFrightened"
        => IF before.state = "respawn" THEN g = before
           ELSE /\ g = [before EXCEPT !.state = "frightened",
                                      !.frightenedTimer = Max(before.frightenedTimer, arg)]
                /\ g.frightenedTimer >= before.frightenedTimer
                /\ g.frightenedTimer >= arg

\* setFrightened was called with a duration shorter than the time the
\* frightened ghost had left.
C18_ShorterDurationGiven ==
  /\ world.probe.call = "setFrightened"
  /\ world.probe.before.state = "frightened"
  /\ world.probe.before.frightenedTimer > world.probe.arg
  /\ world.ghosts[Driven].frightenedTimer = world.probe.before.frightenedTimer

(***************************************************************************)
(* The ways out of frightened and of respawn                              *)
(***************************************************************************)
\* C21: the update of a frightened ghost leaves it frightened while its
\* timer less the frame time is above 0, and in its desiredMode, which is
\* the ghostMode of the schedule in that frame, as soon as it is not; from
\* one frame to the next a ghost leaves frightened only so, or eaten (to
\* respawn), or by a reset of the round.
C21_FrightenedEndsWithTimer ==
  [][world'.probe.advanced # <<>>
       => \A i \in Ghosts :
            LET d      == world'.probe.deltaSeconds
                before == world'.probe.afterPickup[i]
                after  == world'.probe.advanced[i]
            IN  /\ before.desiredMode = world'.ghostMode
                /\ before.state = "frightened"
                     => /\ after.frightenedTimer = before.frightenedTimer - d
                        /\ after.state = IF before.frightenedTimer - d <= 0
                                         THEN world'.ghostMode ELSE "frightened"
                /\ world.ghosts[i].state = "frightened" /\ world'.ghosts[i].state # "frightened"
                     => \/ /\ before.frightenedTimer - d <= 0
                           /\ after.state = world'.ghostMode
                        \/ /\ i \in examined(world')
                           /\ after.state = "frightened"
                        \/ "ready" \in entered(world')]_vars

\* A frightened ghost's timer ran out in a frame; the schedule had moved on
\* to chase while it was frightened, and chase is what it adopted.
C21_FrightenedEndedInChase ==
  /\ world.probe.advanced # <<>>
  /\ \E i \in Ghosts : /\ world.probe.afterPickup[i].state = "frightened"
                       /\ world.probe.afterPickup[i].frightenedTimer > 0
                       /\ world.probe.advanced[i].state = "chase"
                       /\ world.ghosts[i].state = "chase"

\* The cell a ghost is on or is stepping to.
heading(g) == IF g.toCell # NoCell THEN g.toCell ELSE g.currentCell

\* C22: onEaten leaves the ghost in respawn on its currentCell, the step
\* under way dropped (toCell none, progress 0, no direction), frightenedTimer
\* 0 and respawnDelay HOLD_DELAY; an update of a ghost in respawn with
\* respawnDelay > 0 changes nothing but respawnDelay, which goes down by the
\* frame time and not below 0; an update with respawnDelay 0 away from the
\* home cell moves it nearer the home cell.
C22_EatenHeldThenHome ==
  LET call   == world.probe.call
      arg    == world.probe.arg
      before == world.probe.before
      g      == world.ghosts[Driven]
  IN  /\ g.respawnDelay >= 0
      /\ call = "onEaten"
           => /\ g = [before EXCEPT !.state = "respawn",
                                    !.frightenedTimer = 0,
                                    !.respawnDelay = HOLD_DELAY,
                                    !.currentDirection = NoDirection,
                                    !.toCell = NoCell,
                                    !.progressToNext = 0,
                                    !.fromCell = before.currentCell]
              /\ g.currentCell = before.currentCell
              /\ HOLD_DELAY > 0
      /\ call = "update" /\ before.state = "respawn" /\ before.respawnDelay > 0
           => g = [before EXCEPT !.respawnDelay = Max(0, before.respawnDelay - arg)]
      /\ call = "update" /\ before.state = "respawn" /\ before.respawnDelay = 0
             /\ heading(before) # before.homeCell
           => /\ g.state = "respawn"
              /\ manhattanDistance(heading(g), g.homeCell)
                   <= manhattanDistance(heading(before), g.homeCell)
              /\ <<g.currentCell, g.toCell, g.progressToNext>>
                   # <<before.currentCell, before.toCell, before.progressToNext>>

\* The last update of the hold: a ghost eaten away from its home cell, its
\* respawnDelay brought to 0, has not moved.
C22_HoldRunsOut ==
  /\ world.probe.call = "update"
  /\ world.probe.before.state = "respawn"
  /\ world.probe.before.respawnDelay > 0
  /\ world.ghosts[Driven].respawnDelay = 0
  /\ world.ghosts[Driven].currentCell # world.ghosts[Driven].homeCell
  /\ world.ghosts[Driven].toCell = NoCell

\* C23: an update ends respawn, for the desiredMode, exactly when it finds
\* the ghost with respawnDelay 0 and no step under way on its home cell,
\* be it at the start or on arriving there with frame time to spare; a
\* ghost that leaves respawn was on or stepping to its home cell and is
\* still on it after the update.  setMode and setFrightened leave a ghost
\* in respawn in respawn: only such an update or a reset ends it.
C23_RespawnEndsAtHome ==
  LET call   == world.probe.call
      before == world.probe.before
      g      == world.ghosts[Driven]
  IN  before.state = "respawn"
        => /\ g.state # "respawn"
                => /\ call \in {"update", "reset"}
                   /\ g.state = g.desiredMode
           /\ call \in {"setMode", "setFrightened"} => g.state = "respawn"
           /\ call = "update"
                => /\ g.state # "respawn"
                        => /\ before.respawnDelay = 0
                           /\ heading(before) = before.homeCell
                           /\ g.currentCell = g.homeCell
                           /\ g.state = before.desiredMode
                   /\ before.respawnDelay = 0 /\ before.toCell = NoCell
                          /\ before.currentCell = before.homeCell
                        => g.state = before.desiredMode
                   /\ before.respawnDelay > 0 \/ heading(before) # before.homeCell
                        => g.state = "respawn"

\* An update found the ghost in respawn on the last stretch of its way
\* home and left it in chase on its home cell.
C23_ArrivedHomeAndLeft ==
  /\ world.probe.call = "update"
  /\ world.probe.before.state = "respawn"
  /\ world.probe.before.toCell = world.probe.before.homeCell
  /\ world.ghosts[Driven].state = "chase"
  /\ world.ghosts[Driven].currentCell = world.ghosts[Driven].homeCell

(***************************************************************************)
(* The direction a ghost takes                                            *)
(***************************************************************************)
\* The update began a step: the ghost is on a step it was not on before.
beganStep(before, g) ==
  /\ g.toCell # NoCell
  /\ before.toCell = NoCell \/ g.fromCell # before.fromCell

\* C24: a step that a ghost in chase, scatter or respawn begins goes the
\* opposite way of its currentDirection only from a cell with a single
\* available direction.
C24_NoReversalWithChoice ==
  LET before == world.probe.before
      g      == world.ghosts[Driven]
  IN  /\ world.probe.call = "update"
      /\ beganStep(before, g)
      /\ g.state \in {"chase", "scatter", "respawn"}
      /\ before.currentDirection # NoDirection
      /\ g.currentDirection = oppositeDirection(before.currentDirection)
      => /\ Len(getAvailableDirections(maze, g.fromCell)) = 1
         /\ g.toCell = addDirection(g.fromCell, g.currentDirection)

\* A ghost in chase, the player behind it, went on in its direction from a
\* cell where it could have turned back.
C24_KeptGoingAwayFromTarget ==
  /\ world.probe.call = "update"
  /\ beganStep(world.probe.before, world.ghosts[Driven])
  /\ world.ghosts[Driven].state = "chase"
  /\ world.probe.before.currentDirection = "right"
  /\ world.ghosts[Driven].currentDirection = "right"
  /\ world.player.currentCell.col < world.ghosts[Driven].fromCell.col
  /\ Len(getAvailableDirections(maze, world.ghosts[Driven].fromCell)) > 1

(***************************************************************************)
(* Maze.findDirectionBFS                                                  *)
(***************************************************************************)
\* The walkable cells next to the cells of a set.
around(m, cells) ==
  {cell \in walkableCells(m) : \E c \in cells : manhattanDistance(c, cell) = 1}

\* The length of a shortest path of walkable cells from the cells of
\* frontier, which are k steps from the start, to b; -1 if there is none.
RECURSIVE stepsFrom(_, _, _, _, _)
stepsFrom(m, frontier, seen, b, k) ==
  IF b \in frontier THEN k
  ELSE IF frontier = {} THEN -1
  ELSE LET next == around(m, frontier) \ seen
       IN  stepsFrom(m, next, seen \cup next, b, k + 1)

distance(m, a, b) == stepsFrom(m, {a}, {a}, b, 0)

\* The number of steps after which following findDirectionBFS from a
\* arrives at b; -1 if it has not after limit steps.
RECURSIVE stepsFollowing(_, _, _, _)
stepsFollowing(m, a, b, limit) ==
  IF a = b THEN 0
  ELSE IF limit = 0 \/ findDirectionBFS(m, a, b, NoDirection) = NoDirection THEN -1
  ELSE LET rest == stepsFollowing(m, addDirection(a, findDirectionBFS(m, a, b, NoDirection)),
                                  b, limit - 1)
       IN  IF rest < 0 THEN -1 ELSE rest + 1

\* C25: for walkable cells start # target with target reachable,
\* findDirectionBFS(start, target) is a direction to a walkable neighbour
\* whose shortest-path distance to target is that of start less one; and
\* following it from cell to cell reaches target in that many steps.
C25_BfsStepsNearer ==
  world.found # "pending" /\ world.start # world.target
     /\ distance(maze, world.start, world.target) > 0
  => /\ world.found \in Direction
     /\ isWalkable(maze, addDirection(world.start, world.found))
     /\ distance(maze, addDirection(world.start, world.found), world.target)
          = distance(maze, world.start, world.target) - 1
     /\ stepsFollowing(maze, world.start, world.target,
                       distance(maze, world.start, world.target))
          = distance(maze, world.start, world.target)

\* A direction was found at a cell with several open directions, for a
\* target ten steps or more away.
C25_FoundAtCrossing ==
  /\ world.found \in Direction
  /\ Len(getAvailableDirections(maze, world.start)) >= 3
  /\ distance(maze, world.start, world.target) >= 10

(***************************************************************************)
(* The pellets                                                            *)
(***************************************************************************)
\* C26: consumePelletAt(cell) on a cell that holds a pellet returns its
\* kind, the one of the layout, and removes it and nothing else: one pellet
\* less remains and a second call on the cell returns none and changes
\* nothing; on a cell that holds none, or outside the grid, it returns none
\* and changes nothing.
C26_ConsumeOnce ==
  LET before == world.before
      cell   == world.arg
      again  == consumePelletAt(maze, world.grid, world.pellets, cell)
  IN  world.call = "consumePelletAt"
        => IF isInside(maze, cell) /\ cell \in DOMAIN before.pellets
           THEN /\ world.returned = before.pellets[cell]
                /\ world.returned = rebuildPellets(maze, maze.baseGrid)[cell]
                /\ world.returned \in {"pellet", "power"}
                /\ DOMAIN world.pellets = (DOMAIN before.pellets) \ {cell}
                /\ \A c \in DOMAIN world.pellets : world.pellets[c] = before.pellets[c]
                /\ getRemainingPellets(world.pellets)
                     = getRemainingPellets(before.pellets) - 1
                /\ world.grid = [before.grid EXCEPT ![cell.row][cell.col] = 0]
                /\ again.kind = "none"
                /\ again.pellets = world.pellets /\ again.grid = world.grid
           ELSE /\ world.returned = "none"
                /\ world.pellets = before.pellets
                /\ world.grid = before.grid

\* consumePelletAt was called on a cell whose pellet an earlier call of
\* the match had taken.
C26_ConsumedAgain ==
  /\ world.call = "consumePelletAt"
  /\ world.arg \in DOMAIN rebuildPellets(maze, maze.baseGrid)
  /\ world.arg \notin DOMAIN world.before.pellets
  /\ world.returned = "none"
  /\ getRemainingPellets(world.pellets) = 1

\* C27: from one frame to the next no cell gains a pellet and the number
\* of pellets does not go up, except in the frame of a restart from
\* gameover or win, which restores them all; a frame that takes a life
\* leaves the pellets as its pickup left them.  The base grid stays as the
\* layout gave it, and the grid has its walls where the base grid has them.
C27_PelletsRestoredOnlyByRestart ==
  [][/\ maze'.baseGrid = parseLayout(layoutOf(maze)).baseGrid
     /\ \A r \in 0..(maze.rows - 1), c \in 0..(maze.cols - 1) :
          (world'.grid[r][c] = 1) <=> (maze.baseGrid[r][c] = 1)
     /\ IF world.state \in {"gameover", "win"} /\ "ready" \in entered(world')
        THEN world'.pellets = rebuildPellets(maze, maze.baseGrid)
        ELSE /\ DOMAIN world'.pellets \subseteq DOMAIN world.pellets
             /\ getRemainingPellets(world'.pellets) <= getRemainingPellets(world.pellets)
             /\ \A cell \in DOMAIN world'.pellets : world'.pellets[cell] = world.pellets[cell]
     /\ played(world', "death") = 1
          => getRemainingPellets(world'.pellets)
               = getRemainingPellets(world.pellets)
                   - (IF world'.probe.collected = "none" THEN 0 ELSE 1)]_vars

\* A frame took a pellet and a life: the round is reset, the pellet stays
\* taken.
C27_LifeLostOnPickup ==
  /\ played(world, "death") = 1
  /\ world.state = "ready"
  /\ world.probe.collected # "none"
  /\ getRemainingPellets(world.pellets) < getRemainingPellets(rebuildPellets(maze, maze.baseGrid))

\* The progress of a player or ghost is between 0 and a whole tile, and it
\* is 0 exactly when no step is under way.
stepConsistent(e) ==
  /\ e.progressToNext >= 0
  /\ e.progressToNext <= Scale
  /\ (e.toCell = NoCell) <=> (e.progressToNext = 0)

\* C28: after every frame the player and every ghost have a progress
\* between 0 and 1 tile, and no target cell exactly when the progress is 0.
C28_ProgressAndTarget ==
  /\ stepConsistent(world.player)
  /\ \A i \in DOMAIN world.ghosts : stepConsistent(world.ghosts[i])

\* The frame ate a ghost in the middle of its step while the player was in
\* the middle of its own: the ghost has no step and no progress, the player
\* has both.
C28_EatenMidStep ==
  /\ world.player.toCell # NoCell
  /\ world.player.progressToNext > 0
  /\ \E i \in DOMAIN world.ghosts :
        /\ i \in DOMAIN world.probe.advanced
        /\ world.probe.advanced[i].state = "frightened"
        /\ world.probe.advanced[i].progressToNext > 0
        /\ world.ghosts[i].state = "respawn"
        /\ world.ghosts[i].toCell = NoCell

\* The buffered direction of player b can be taken at cell `at`.
takes(m, at, b) ==
  b.bufferedDirection # NoDirection /\ canMove(m, at, b.bufferedDirection)

\* The direction a player with b's directions goes on with at cell `at`:
\* the buffered one if it can be taken, else the current one if it leads to
\* a walkable cell, else none.
chosen(m, at, b) ==
  IF takes(m, at, b) THEN b.bufferedDirection
  ELSE IF b.currentDirection # NoDirection /\ canMove(m, at, b.currentDirection)
  THEN b.currentDirection
  ELSE NoDirection

\* Player p is what the decision at cell `at` makes of player b: it has
\* begun a step in the chosen direction, or stands at `at` if there is none;
\* the buffer is emptied if it was taken and left alone if not.
decided(m, at, b, p) ==
  /\ p.currentCell = at
  /\ p.currentDirection = chosen(m, at, b)
  /\ p.bufferedDirection = (IF takes(m, at, b) THEN NoDirection ELSE b.bufferedDirection)
  /\ IF chosen(m, at, b) = NoDirection
     THEN p.toCell = NoCell /\ p.progressToNext = 0
     ELSE /\ p.fromCell = at
          /\ p.toCell = addDirection(at, chosen(m, at, b))
          /\ p.progressToNext > 0

\* Player p is player b after update: from a cell boundary the decision is
\* made there; from the middle of a step the step goes on as it was, or
\* ends in its target cell, where the time is used up or the decision is
\* made.
advanced(m, b, p) ==
  IF b.toCell = NoCell THEN decided(m, b.currentCell, b, p)
  ELSE \/ /\ p.currentCell = b.currentCell
          /\ p.fromCell = b.fromCell
          /\ p.toCell = b.toCell
          /\ p.currentDirection = b.currentDirection
          /\ p.bufferedDirection = b.bufferedDirection
          /\ p.progressToNext > b.progressToNext
       \/ /\ p.currentCell = b.toCell
          /\ p.toCell = NoCell
          /\ p.progressToNext = 0
          /\ p.currentDirection = b.currentDirection
          /\ p.bufferedDirection = b.bufferedDirection
       \/ decided(m, b.toCell, b, p)

\* The calls of update and queueDirection did what is said of them.
updateAndQueueAsSaid ==
  /\ world.call = "update" => advanced(maze, world.before, world.player)
  /\ world.call = "queueDirection"
       => world.player = [world.before EXCEPT !.bufferedDirection = world.arg]

\* The call was an update that took the buffered direction at the cell
\* where it made its decision.
tookBuffered ==
  /\ world.call = "update"
  /\ world.player.currentDirection = world.before.bufferedDirection
  /\ world.player.fromCell # NoCell
  /\ canMove(maze, world.player.fromCell, world.before.bufferedDirection)

\* The call changed a buffer that held a direction.
bufferChanged ==
  /\ world.before.bufferedDirection # NoDirection
  /\ world.player.bufferedDirection # world.before.bufferedDirection

\* C29 as stated: update decides at a cell boundary as said, queueDirection
\* only overwrites the buffer, and a buffered direction stays until an
\* update takes it or queueDirection overwrites it.
C29_BufferedUntilTakenOrOverwritten ==
  /\ updateAndQueueAsSaid
  /\ bufferChanged => world.call = "queueDirection" \/ tookBuffered

\* C29: at a cell boundary update takes the buffered direction if it leads
\* to a walkable cell and empties the buffer, else keeps the current
\* direction if that leads to a walkable cell, else stops; a step under way
\* is carried on or finished as it was begun; queueDirection changes the
\* buffer and nothing else; a buffered direction stays until an update
\* takes it, queueDirection overwrites it, or reset empties the buffer.
C29_BufferedUntilTakenOverwrittenOrReset ==
  /\ updateAndQueueAsSaid
  /\ bufferChanged
       => \/ world.call = "queueDirection"
          \/ tookBuffered
          \/ world.call = "reset" /\ world.player.bufferedDirection = NoDirection

\* reset emptied a buffer whose direction led into a wall where the player
\* stood, away from its spawn cell.
C29_ResetDroppedBlocked ==
  /\ world.call = "reset"
  /\ world.before.toCell = NoCell
  /\ world.before.currentCell # world.before.spawnCell
  /\ world.before.bufferedDirection # NoDirection
  /\ ~canMove(maze, world.before.currentCell, world.before.bufferedDirection)
  /\ world.player.bufferedDirection = NoDirection

\* C30: a frame leaves no request pending in Input; over any order of key
\* events and frames the frames that read a start request are no more than
\* the key events that set it, the countdowns started are no more than the
\* start requests read outside countdown and playing (a request read in
\* countdown or playing starts no round, then or later), and the frames
\* that passed a direction to the player or toggled the camera are no more
\* than the key events that asked for it.
C30_EachRequestReadOnce ==
  /\ world.trace.last = "frame" => world.input = Input_new
  /\ world.trace.reads.start <= world.trace.keys.start
  /\ world.trace.rounds + world.trace.discards <= world.trace.reads.start
  /\ world.trace.reads.direction <= world.trace.keys.direction
  /\ world.trace.reads.camera <= world.trace.keys.camera

\* Three start requests were read one by one: two started a round and one,
\* read in countdown or playing, started none; a direction was passed on
\* and two direction keys between two frames counted as one.
C30_DiscardedAndCoalesced ==
  /\ world.trace.keys.start = 3
  /\ world.trace.reads.start = 3
  /\ world.trace.discards = 1
  /\ world.trace.rounds = 2
  /\ world.trace.keys.direction = 2
  /\ world.trace.reads.direction = 1
  /\ world.trace.last = "frame"

(***************************************************************************)
(* Maze.findDirectionBFS with a forbidden first direction                  *)
(***************************************************************************)
\* The directions a path from start may begin with.
firstMoves(m, start, forbidden) ==
  {direction \in Direction : direction # forbidden /\ canMove(m, start, direction)}

\* The length of a shortest path from start to b that begins with
\* `direction` and does not come back to start; -1 if there is none.
lengthBy(m, start, b, direction) ==
  LET next == addDirection(start, direction)
      rest == stepsFrom(m, {next}, {next, start}, b, 0)
  IN  IF rest < 0 THEN -1 ELSE rest + 1

\* The first moves of the shortest paths from start to b among those that
\* do not begin with forbidden.
shortestFirstMoves(m, start, b, forbidden) ==
  {direction \in firstMoves(m, start, forbidden) :
     /\ lengthBy(m, start, b, direction) > 0
     /\ \A other \in firstMoves(m, start, forbidden) :
          lengthBy(m, start, b, other) > 0
            => lengthBy(m, start, b, direction) <= lengthBy(m, start, b, other)}

\* The first direction of DIRECTIONS that is in a non-empty set.
firstOf(directions) ==
  DIRECTIONS[CHOOSE i \in DOMAIN DIRECTIONS :
               /\ DIRECTIONS[i] \in directions
               /\ \A j \in 1..(i - 1) : DIRECTIONS[j] \notin directions]

\* C31: findDirectionBFS(start, target, forbidden) returns none exactly
\* when start or target is not walkable (a cell outside the grid is not),
\* when they are the same cell, or when no path leads from start to target
\* that begins with a direction other than forbidden; otherwise it returns
\* the first, in the order up, down, left, right, of the directions other
\* than forbidden that begin a shortest such path.
C31_BfsFirstOfShortest ==
  world.found # "pending"
    => world.found =
         (IF \/ ~isWalkable(maze, world.start)
             \/ ~isWalkable(maze, world.target)
             \/ world.start = world.target
             \/ shortestFirstMoves(maze, world.start, world.target, world.forbidden) = {}
          THEN NoDirection
          ELSE firstOf(shortestFirstMoves(maze, world.start, world.target, world.forbidden)))

\* None was returned for two walkable cells joined by a path, every path
\* between them beginning with the forbidden direction.
C31_OnlyForbiddenLeads ==
  /\ world.found = NoDirection
  /\ isWalkable(maze, world.start)
  /\ distance(maze, world.start, world.target) > 0
  /\ Cardinality(firstMoves(maze, world.start, world.forbidden)) >= 1

(***************************************************************************)
(* Ghost.chooseDirection: the fallback                                     *)
(***************************************************************************)
\* The cell a ghost in state `state` makes for.
targetOf(g, state, playerCell) ==
  IF state = "respawn" THEN g.homeCell
  ELSE IF state = "chase" THEN playerCell
  ELSE g.scatterTarget

\* The reverse of the direction of a ghost that stands as b, where it has
\* more than one way to go; none otherwise.
forbiddenReverse(m, b) ==
  IF b.currentDirection # NoDirection
     /\ Cardinality({d \in Direction : canMove(m, b.currentCell, d)}) > 1
  THEN oppositeDirection(b.currentDirection)
  ELSE NoDirection

\* The directions a ghost that stands as b may take: those that lead to a
\* walkable cell, less the forbidden reverse.
allowedDirections(m, b) ==
  {d \in Direction : canMove(m, b.currentCell, d)} \ {forbiddenReverse(m, b)}

\* The allowed directions whose cell is nearest to target by rows plus
\* columns.
nearestDirections(m, b, target) ==
  {d \in allowedDirections(m, b) :
     \A e \in allowedDirections(m, b) :
        manhattanDistance(addDirection(b.currentCell, d), target)
          <= manhattanDistance(addDirection(b.currentCell, e), target)}

\* findDirectionBFS gives nothing to the ghost that stood as b and chose in
\* the state of g.
bfsGaveNone(m, b, g, playerCell) ==
  /\ g.state # "frightened"
  /\ findDirectionBFS(m, b.currentCell, targetOf(b, g.state, playerCell),
                      forbiddenReverse(m, b)) = NoDirection

\* C32: an update of a ghost that stands between two steps, not held in
\* respawn, on a cell with a walkable cell next to it, begins a step to one
\* of those cells; where findDirectionBFS gives nothing the step goes in
\* the first, in the order up, down, left, right, of the allowed directions
\* whose cell is nearest to the target by rows plus columns.
C32_AlwaysStepsAndFallsBack ==
  LET b == world.before
      g == world.ghost
  IN  /\ world.call = "update"
      /\ b.toCell = NoCell
      /\ ~(b.state = "respawn" /\ b.respawnDelay > 0)
      /\ getAvailableDirections(maze, b.currentCell) # <<>>
      => /\ g.toCell # NoCell
         /\ g.progressToNext > 0
         /\ g.fromCell = b.currentCell
         /\ g.currentDirection \in Direction
         /\ g.toCell = addDirection(b.currentCell, g.currentDirection)
         /\ isWalkable(maze, g.toCell)
         /\ bfsGaveNone(maze, b, g, world.playerCell)
              => g.currentDirection
                   = firstOf(nearestDirections(maze, b, targetOf(b, g.state, world.playerCell)))

\* With the way to its target behind it a ghost at a crossing took the
\* nearer of two dead ends, which is not the first of the two in order.
C32_FellBackToNearer ==
  /\ world.call = "update"
  /\ world.ghost.state \in {"chase", "scatter"}
  /\ bfsGaveNone(maze, world.before, world.ghost, world.playerCell)
  /\ world.before.currentCell
       # targetOf(world.before, world.ghost.state, world.playerCell)
  /\ Cardinality(allowedDirections(maze, world.before)) = 2
  /\ world.ghost.currentDirection # firstOf(allowedDirections(maze, world.before))

(***************************************************************************)
(* The frame time                                                          *)
(***************************************************************************)
\* From e to f an entity stayed on its cell, or finished one step, the one
\* it was on or one it began.
oneStepAtMost(e, f) ==
  \/ f.currentCell = e.currentCell
  \/ /\ manhattanDistance(e.currentCell, f.currentCell) = 1
     /\ e.toCell # NoCell => f.currentCell = e.toCell
     /\ f.toCell # NoCell => manhattanDistance(e.currentCell, f.toCell) = 2
                               \/ f.toCell = e.currentCell

\* C33: every frame runs with a time of 50 ms at most, whatever the clock
\* gave; in a frame that resets neither round nor match the player and
\* every ghost finish one step at most, so that their cell moves by one
\* cell at most, and the mode schedule goes on by one entry at most and is
\* left with less time elapsed than its entry lasts.
C33_ClampedFrameOneStep ==
  [][/\ world'.probe.deltaSeconds <= MAX_DELTA
     /\ world'.probe.deltaSeconds = Min(world'.elapsed, MAX_DELTA)
     /\ "ready" \notin entered(world')
          => /\ oneStepAtMost(world.player, world'.player)
             /\ \A i \in DOMAIN world.ghosts : oneStepAtMost(world.ghosts[i], world'.ghosts[i])
             /\ world'.scheduleIndex \in {world.scheduleIndex, world.scheduleIndex + 1}
             /\ ~elapsedReaches(world'.scheduleElapsed,
                                MODE_SCHEDULE[world'.scheduleIndex + 1].duration)]_vars

\* After a pause of the clock a frame ran with 50 ms and finished a step of
\* a ghost, the player being away from its spawn cell and the mode schedule
\* at its second entry.
C33_LongFrameClamped ==
  /\ world.elapsed > MAX_DELTA
  /\ world.probe.deltaSeconds = MAX_DELTA
  /\ world.scheduleIndex = 1
  /\ world.player.currentCell # world.player.spawnCell
  /\ \E i \in DOMAIN world.ghosts :
        /\ i \in DOMAIN world.probe.afterPickup
        /\ world.probe.afterPickup[i].currentCell # world.ghosts[i].currentCell

(***************************************************************************)
(* The scheduled mode and the ghosts                                       *)
(***************************************************************************)
\* C34: after every frame ghostMode is the mode of the entry of
\* MODE_SCHEDULE at scheduleIndex, every ghost's desiredMode is ghostMode,
\* and every ghost in chase or scatter is in ghostMode.
C34_GhostsFollowSchedule ==
  /\ world.ghostMode = MODE_SCHEDULE[world.scheduleIndex + 1].mode
  /\ \A i \in DOMAIN world.ghosts :
       /\ world.ghosts[i].desiredMode = world.ghostMode
       /\ world.ghosts[i].state \in {"chase", "scatter"}
            => world.ghosts[i].state = world.ghostMode

\* A life was lost in chase, after the first change of the schedule: the
\* round is reset and the ghosts are back in scatter.
C34_LifeLostInChase ==
  /\ played(world, "death") = 1
  /\ world.state = "ready"
  /\ world.probe.deltaSeconds * playTicks >= MODE_SCHEDULE[1].duration
  /\ \E i \in DOMAIN world.probe.advanced : world.probe.advanced[i].state = "chase"
  /\ world.scheduleIndex = 0
  /\ \A i \in DOMAIN world.ghosts : world.ghosts[i].state = "scatter"

(***************************************************************************)
(* Cells                                                                   *)
(***************************************************************************)
\* The cell of a player or ghost is a walkable cell of the grid, and the
\* cell it steps to, if any, a walkable cell next to it.
onWalkableCells(m, e) ==
  /\ isInside(m, e.currentCell)
  /\ isWalkable(m, e.currentCell)
  /\ e.toCell # NoCell
       => /\ isInside(m, e.toCell)
          /\ isWalkable(m, e.toCell)
          /\ manhattanDistance(e.currentCell, e.toCell) = 1

\* C35: in every state the cell of the player and of every ghost is a
\* walkable cell inside the grid, and the cell each steps to, if any, is a
\* walkable cell next to it, whatever the state of the ghost.
C35_OnWalkableCells ==
  /\ onWalkableCells(maze, world.player)
  /\ \A i \in DOMAIN world.ghosts : onWalkableCells(maze, world.ghosts[i])

\* A frightened ghost at the end of the corridor, walls on three sides, is
\* on its way back, and the player is on a step as well.
C35_FrightenedTurnsAtWall ==
  /\ world.player.toCell # NoCell
  /\ \E i \in DOMAIN world.ghosts :
        /\ world.ghosts[i].state = "frightened"
        /\ Len(getAvailableDirections(maze, world.ghosts[i].currentCell)) = 1
        /\ world.ghosts[i].toCell # NoCell

(***************************************************************************)
(* The player's cell and the pellets                                       *)
(***************************************************************************)
\* No pellet is left on a cell, in the pellet map or in the grid.
emptied(w, cell) ==
  /\ cell \notin DOMAIN w.pellets
  /\ w.grid[cell.row][cell.col] \notin {2, 3}

\* C36: after every frame that ends in playing the player's cell holds no
\* pellet; and the cell the player was on before a frame holds none after
\* it, unless the frame restarts the match: the cells the player has been
\* on since the match began, its spawn cell included, stay empty.
C36_NoPelletLeftBehind ==
  [][/\ world'.state = "playing" => emptied(world', world'.player.currentCell)
     /\ ~(world.state \in {"gameover", "win"} /\ "ready" \in entered(world'))
          => emptied(world', world.player.currentCell)]_vars

\* The player is two cells from its spawn cell: the two pellets on its way
\* are gone, others are left and the round goes on.
C36_TwoCellsCleared ==
  /\ world.state = "playing"
  /\ manhattanDistance(world.player.currentCell, world.player.spawnCell) = 2
  /\ world.score = 20
  /\ getRemainingPellets(world.pellets) > 0

(***************************************************************************)
(* Passing through                                                         *)
(***************************************************************************)
\* Entity e is on the row of f and left of it.
leftOf(e, f) == worldZ(e) = worldZ(f) /\ worldX(e) < worldX(f)

\* C37: a frame of 50 ms at most that begins and ends in playing, so that
\* it registered no hit, does not take the player from one side to the
\* other side of a ghost that is in chase or scatter on the player's row
\* before and after it, nor onto the very place of the ghost.
C37_NoPassingThrough ==
  [][world.state = "playing" /\ world'.state = "playing"
       /\ world'.probe.deltaSeconds <= MAX_DELTA
     => \A i \in DOMAIN world.ghosts :
           /\ world.ghosts[i].state \in {"chase", "scatter"}
           /\ world'.ghosts[i].state \in {"chase", "scatter"}
           => /\ leftOf(world.player, world.ghosts[i])
                   => leftOf(world'.player, world'.ghosts[i])
              /\ leftOf(world.ghosts[i], world.player)
                   => leftOf(world'.ghosts[i], world'.player)]_vars

\* The player, arriving on a cell, and a ghost in chase or scatter on its
\* way to the left met within the collision distance, and the frame took
\* a life.
C37_MetAndHit ==
  /\ played(world, "death") = 1
  /\ world.probe.collected # "none"
  /\ \E i \in DOMAIN world.probe.advanced :
        /\ world.probe.contact[i]
        /\ world.probe.advanced[i].state \in {"chase", "scatter"}
        /\ world.probe.advanced[i].toCell # NoCell
        /\ world.probe.advanced[i].currentDirection = "left"

(***************************************************************************)
(* The way home                                                            *)
(***************************************************************************)
\* One update of a ghost in respawn: while it is held it stays on its cell
\* and the hold runs down; after the hold a step it finishes brings it one
\* cell nearer to its home cell by the shortest path; it leaves respawn on
\* its home cell only, for its desired mode.
homeward(m, b, g) ==
  /\ b.respawnDelay > 0
       => /\ g.currentCell = b.currentCell
          /\ g.toCell = NoCell
          /\ g.state = "respawn"
          /\ g.respawnDelay < b.respawnDelay
  /\ g.currentCell # b.currentCell
       => distance(m, g.currentCell, b.homeCell) = distance(m, b.currentCell, b.homeCell) - 1
  /\ g.state # "respawn"
       => /\ g.state = b.desiredMode
          /\ g.fromCell = b.homeCell

\* C38: with frames that keep coming, a ghost in respawn comes to be out of
\* respawn, in its desired mode, leaving from its home cell; on the way
\* every update is as homeward says, and nothing but an update moves the
\* ghost or takes it out of respawn.
C38_RespawnLeadsHome ==
  /\ (world.ghost.state = "respawn")
       ~> (world.ghost.state = world.ghost.desiredMode
             /\ world.ghost.fromCell = world.ghost.homeCell)
  /\ [][world.ghost.state = "respawn"
          => IF playTicks' # playTicks
             THEN homeward(maze, world.ghost, world'.ghost)
             ELSE /\ world'.ghost.state = "respawn"
                  /\ world'.ghost.currentCell = world.ghost.currentCell
                  /\ world'.ghost.respawnDelay = world.ghost.respawnDelay]_vars

\* A ghost has left respawn from its home cell in the frame in which it
\* arrived there, 44 frames or more after it was eaten: the hold and ten
\* steps at least.
C38_HomeFromAfar ==
  /\ world.ghost.state # "respawn"
  /\ world.ghost.fromCell = world.ghost.homeCell
  /\ world.call = "update"
  /\ world.before.state = "respawn"
  /\ world.before.currentCell # world.before.homeCell
  /\ playTicks >= 44

(***************************************************************************)
(* The end of the frightened period                                        *)
(***************************************************************************)
\* C39: a ghost is frightened only while less than FRIGHTENED_DURATION of
\* playing time has gone by from the frame of the latest power pellet on:
\* after the frame with which that time reaches FRIGHTENED_DURATION no
\* ghost is frightened.
C39_FrightenedWithinDuration ==
  \A index \in DOMAIN world.ghosts :
     world.ghosts[index].state = "frightened"
       => /\ world.sincePickup # NoPickup
          /\ world.sincePickup < FRIGHTENED_DURATION

\* The frame that brought the time since the second power pellet of a round
\* to FRIGHTENED_DURATION has taken every ghost out of frightened.
C39_SecondPeriodOver ==
  /\ world.state = "playing"
  /\ world.sincePickup = FRIGHTENED_DURATION
  /\ DOMAIN world.pellets # {}
  /\ \A cell \in DOMAIN world.pellets : world.pellets[cell] = "pellet"
  /\ \A index \in DOMAIN world.probe.advanced :
        world.probe.advanced[index].state # "frightened"
  /\ \E index \in DOMAIN world.probe.afterPickup :
        world.probe.afterPickup[index].state = "frightened"

(***************************************************************************)
(* The way to win                                                          *)
(***************************************************************************)
\* Every pellet and power pellet of the maze lies on a cell that can be
\* walked to from the player's spawn cell.
itemsWithinReach(m) ==
  DOMAIN rebuildPellets(m, m.baseGrid) \subseteq spread(m, {m.playerSpawn}, {})

\* C40: in MAZE_LAYOUT every item can be walked to from the player's spawn
\* cell, and the match without ghosts in which the user heads for the
\* nearest item ends in win with no item left.
C40_WinWithinReach ==
  /\ maze = parseLayout(MAZE_LAYOUT)
  /\ itemsWithinReach(maze)
  /\ <>(world.state = "win" /\ DOMAIN world.pellets = {})

\* The last of the items of MAZE_LAYOUT has been collected and the match is
\* won.
C40_AllCollected ==
  /\ world.state = "win"
  /\ DOMAIN world.pellets = {}
  /\ world.probe.collected # "none"
  /\ world.score >= 10 * Cardinality(DOMAIN rebuildPellets(maze, maze.baseGrid))
  /\ Cardinality(DOMAIN rebuildPellets(maze, maze.baseGrid)) > 150

====
